---- MODULE Spec2Model ----
(***************************************************************************)
(* LLCAR: video/audio -> speaker-attributed transcript pipeline.           *)
(*                                                                         *)
(* Part 1: the interval aligner (src/src/transcription.py).                *)
(* Times are integers (a fixed time grid); None is Python's None.          *)
(***************************************************************************)
EXTENDS Integers, Sequences, FiniteSets, TLC

\* one speaker assignment: the turn list, the span and the speaker found
VARIABLES m_turns, m_start, m_end, m_speaker, m_pc

mvars == <<m_turns, m_start, m_end, m_speaker, m_pc>>

\* one transcription: the transcriber's language, the diarizer's turns, the
\* recognition result, the utterances before and after normalisation
VARIABLES a_language, a_turns, a_result, a_segments, a_processed, a_pc

avars == <<a_language, a_turns, a_result, a_segments, a_processed, a_pc>>

\* one run of the orchestrator: the pipeline instance, the call, the results
\* dict under construction, the values handed from stage to stage, the files
VARIABLES r_language, r_automotive, r_pc, r_kind, r_args, r_unwritable,
          r_steps, r_status,
          r_error, r_exception, r_at, r_speaker_segments, r_speaker_stats, r_transcription,
          r_processed, r_keywords, r_typology, r_report, r_output_files, r_files, r_calls,
          r_removal

rvars == <<r_language, r_automotive, r_pc, r_kind, r_args, r_unwritable, r_steps, r_status,
           r_error, r_exception, r_at, r_speaker_segments, r_speaker_stats, r_transcription,
           r_processed, r_keywords, r_typology, r_report, r_output_files, r_files, r_calls,
           r_removal>>

\* the output formatter used on its own: the utterances, the files, the paths
\* its writers returned
VARIABLES e_segments, e_unwritable, e_files, e_returned, e_last, e_report

evars == <<e_segments, e_unwritable, e_files, e_returned, e_last, e_report>>

\* the construction of a pipeline: the arguments, the position in __init__,
\* the validations made and the models loaded so far
VARIABLES i_language, i_model_variant, i_hf_token, i_pc, i_exception,
          i_checks, i_loaded

ivars == <<i_language, i_model_variant, i_hf_token, i_pc, i_exception,
           i_checks, i_loaded>>

\* one text put through the normaliser twice: the processor's configuration,
\* the text, the result and the result of cleaning the result
VARIABLES t_language, t_fillers, t_profanity, t_text, t_once, t_twice, t_pc

tvars == <<t_language, t_fillers, t_profanity, t_text, t_once, t_twice, t_pc>>

\* one keyword extraction: the texts, the method name, top_n, what the
\* libraries hand back, the result and the log
VARIABLES k_language, k_texts, k_method, k_top_n, k_vectorizer, k_textrank,
          k_result, k_raised, k_algorithm, k_log, k_pc

kvars == <<k_language, k_texts, k_method, k_top_n, k_vectorizer, k_textrank,
           k_result, k_raised, k_algorithm, k_log, k_pc>>

\* one batch of the console: the files found, the loop position, the
\* counters, the files attempted and the session history
VARIABLES c_files, c_idx, c_successful, c_failed, c_attempted, c_history, c_pc

cvars == <<c_files, c_idx, c_successful, c_failed, c_attempted, c_history,
           c_pc>>

\* the entity analyzer used on a list of utterances
VARIABLES y_segments, y_result, y_index, y_analysis, y_related, y_pc

yvars == <<y_segments, y_result, y_index, y_analysis, y_related, y_pc>>

\* a client of the formatter: a report and a CSV file written and read back
VARIABLES w_segments, w_report, w_file, w_rows, w_pc

wvars == <<w_segments, w_report, w_file, w_rows, w_pc>>

\* one console session: the configured language, the cached pipeline, the session history, the attempts made, the batch under way, the output directory
VARIABLES s_language, s_pipeline, s_history, s_attempts, s_pc, s_batch, s_batch_language, s_output

svars == <<s_language, s_pipeline, s_history, s_attempts, s_pc, s_batch, s_batch_language, s_output>>

\* the GUI: the is_processing flag, the two buttons, the worker threads, the callbacks queued for the main loop
VARIABLES g_is_processing, g_process_btn, g_stop_btn, g_workers, g_after

gvars == <<g_is_processing, g_process_btn, g_stop_btn, g_workers, g_after>>

vars == <<mvars, avars, rvars, evars, ivars, tvars, kvars, cvars, yvars, wvars, svars, gvars>>

None == "None"

\* ---- bounds of the aligner model ----
MaxTime == 3
MaxTurns == 2

Speakers == {"SPEAKER_00", "SPEAKER_01"}
Times == 0..MaxTime

Max(a, b) == IF a >= b THEN a ELSE b
Min(a, b) == IF a <= b THEN a ELSE b

\* SpeakerTurn as returned by SpeakerDiarizer.diarize
SpeakerTurns == {t \in [speaker : Speakers, start : Times, end : Times] : t.start <= t.end}

RECURSIVE SeqsUpTo(_, _)
SeqsUpTo(S, n) ==
  IF n = 0 THEN {<< >>}
  ELSE LET shorter == SeqsUpTo(S, n - 1)
       IN shorter \cup {Append(s, x) : s \in {q \in shorter : Len(q) = n - 1}, x \in S}

\* overlap = max(0.0, min(end, seg.end) - max(start, seg.start))
Overlap(start, end, seg) == Max(0, Min(end, seg.end) - Max(start, seg.start))

\* the for-loop of _match_speaker, from index i with the current accumulators
RECURSIVE MatchLoop(_, _, _, _, _, _)
MatchLoop(start, end, segs, i, max_overlap, matched_speaker) ==
  IF i > Len(segs) THEN matched_speaker
  ELSE LET overlap == Overlap(start, end, segs[i])
       IN IF overlap > max_overlap
          THEN MatchLoop(start, end, segs, i + 1, overlap, segs[i].speaker)
          ELSE MatchLoop(start, end, segs, i + 1, max_overlap, matched_speaker)

\* mutant: ">=" instead of ">" (the last turn of a tie wins, zero overlap matches)
match_speaker_last_wins(start, end, speaker_segments) ==
  LET RECURSIVE Loop(_, _, _)
      Loop(i, max_overlap, matched_speaker) ==
        IF i > Len(speaker_segments) THEN matched_speaker
        ELSE LET overlap == Overlap(start, end, speaker_segments[i])
             IN IF overlap >= max_overlap
                THEN Loop(i + 1, overlap, speaker_segments[i].speaker)
                ELSE Loop(i + 1, max_overlap, matched_speaker)
  IN Loop(1, 0, None)

\* mutant: the loop starts at the second turn (off-by-one over the list)
match_speaker_skip_first(start, end, speaker_segments) ==
  MatchLoop(start, end, speaker_segments, 2, 0, None)

\* mutant: the first turn's speaker is the default instead of None
match_speaker_default_first(start, end, speaker_segments) ==
  MatchLoop(start, end, speaker_segments, 1, 0,
            IF speaker_segments = << >> THEN None ELSE speaker_segments[1].speaker)

match_speaker(start, end, speaker_segments) ==
  MatchLoop(start, end, speaker_segments, 1, 0, None)

\* "speaker": None, then: if speaker_segments: speaker = self._match_speaker(...)
segment_speaker(start, end, speaker_segments) ==
  IF speaker_segments # << >>
  THEN match_speaker(start, end, speaker_segments)
  ELSE None

MatchInit ==
  /\ m_turns \in SeqsUpTo(SpeakerTurns, MaxTurns)
  /\ m_start \in Times
  /\ m_end \in Times
  /\ m_start <= m_end
  /\ m_speaker = None
  /\ m_pc = "call"

\* the speaker assignment of one recognised span (the loop body of
\* _process_whisper_result / _process_hf_result)
MatchSpeaker ==
  /\ m_pc = "call"
  /\ m_speaker' = segment_speaker(m_start, m_end, m_turns)
  /\ m_pc' = "return"
  /\ UNCHANGED <<m_turns, m_start, m_end>>
  /\ UNCHANGED <<avars, rvars, evars, ivars, tvars, kvars, cvars, yvars, wvars, svars, gvars>>

MatchNext == MatchSpeaker

\* the aligner model at rest (while another part of the program is explored)
MatchIdle ==
  /\ m_turns = << >>
  /\ m_start = 0
  /\ m_end = 0
  /\ m_speaker = None
  /\ m_pc = "idle"

\* ---- claims about _match_speaker ----
MOverlap(i) == Overlap(m_start, m_end, m_turns[i])
MBest == IF m_turns = << >> THEN 0
         ELSE CHOOSE v \in 0..MaxTime :
                /\ \E i \in 1..Len(m_turns) : MOverlap(i) = v
                /\ \A i \in 1..Len(m_turns) : MOverlap(i) <= v
MFirstBest == CHOOSE i \in 1..Len(m_turns) :
                /\ MOverlap(i) = MBest
                /\ \A j \in 1..(i - 1) : MOverlap(j) < MBest

\* C1: when some turn overlaps the span, the aligner returns the speaker of the
\* turn with the largest overlap, and among turns that tie for the largest
\* positive overlap the one that comes first in the list.
C1_MaxOverlapFirstWins ==
  (m_pc = "return" /\ MBest > 0) => m_speaker = m_turns[MFirstBest].speaker

\* C1 witness: two turns of different speakers tie for the largest positive
\* overlap and the first one's speaker was returned.
C1_Witness ==
  /\ m_pc = "return"
  /\ Len(m_turns) = 2
  /\ m_turns[1].speaker # m_turns[2].speaker
  /\ MOverlap(1) = MOverlap(2)
  /\ MOverlap(1) > 0
  /\ m_speaker = m_turns[1].speaker

\* C4: a span that has no positive overlap with any speaker turn gets speaker
\* None (in particular when there are no turns at all).
C4_NoOverlapNoSpeaker ==
  (m_pc = "return" /\ \A i \in 1..Len(m_turns) : MOverlap(i) = 0) => m_speaker = None

\* C4 witness: turns exist, none overlaps the span, and the span got None.
C4_Witness ==
  /\ m_pc = "return"
  /\ Len(m_turns) = 2
  /\ m_start < m_end
  /\ \A i \in 1..Len(m_turns) : MOverlap(i) = 0
  /\ m_speaker = None

\* turns share no interval of positive length
NonOverlapping(turns) ==
  \A i, j \in 1..Len(turns) :
    i # j => Min(turns[i].end, turns[j].end) - Max(turns[i].start, turns[j].start) <= 0

Inside(start, end, turn) == turn.start <= start /\ start <= end /\ end <= turn.end

\* C3 as stated: with pairwise non-overlapping turns, a span lying inside a turn
\* (start <= end allowed to be equal) gets exactly that turn's speaker.
C3_Original ==
  (m_pc = "return" /\ NonOverlapping(m_turns)) =>
    \A i \in 1..Len(m_turns) :
      Inside(m_start, m_end, m_turns[i]) => m_speaker = m_turns[i].speaker

\* C3 amended: with pairwise non-overlapping turns, a span of positive duration
\* lying inside a turn gets exactly that turn's speaker.
C3_InsideTurnPositiveDuration ==
  (m_pc = "return" /\ NonOverlapping(m_turns) /\ m_start < m_end) =>
    \A i \in 1..Len(m_turns) :
      Inside(m_start, m_end, m_turns[i]) => m_speaker = m_turns[i].speaker

\* C3 witness: two non-overlapping turns of different speakers, a span of
\* positive duration inside the first one, and that turn's speaker returned.
C3_Witness ==
  /\ m_pc = "return"
  /\ Len(m_turns) = 2
  /\ NonOverlapping(m_turns)
  /\ m_turns[1].speaker # m_turns[2].speaker
  /\ m_start < m_end
  /\ Inside(m_start, m_end, m_turns[1])
  /\ m_speaker = m_turns[1].speaker

(***************************************************************************)
(* Part 2: text normalisation (src/src/postprocessing.py).                 *)
(* A text is a sequence of characters; a character outside ASCII is named  *)
(* by its code point ("U+043D").                                           *)
(***************************************************************************)
SpaceChars == {" ", "\t", "\n"}
PunctChars == {".", ",", "!", "?", ";", ":"}
\* characters of the model alphabets that the regex class \w does not match
NonWordChars == SpaceChars \cup PunctChars \cup {"*", "-", "'"}

IsSpace(c) == c \in SpaceChars
IsPunct(c) == c \in PunctChars
IsWord(c) == c \notin NonWordChars

RUSSIAN_SINGLE_FILLERS == {
  <<"U+0430", "U+0430", "U+0430">>,
  <<"U+0432", "U+0438", "U+0434", "U+0438", "U+0448", "U+044C">>,
  <<"U+0432", "U+043E", "U+0442">>,
  <<"U+0437", "U+043D", "U+0430", "U+0435", "U+0448", "U+044C">>,
  <<"U+0437", "U+043D", "U+0430", "U+0447", "U+0438", "U+0442">>,
  <<"U+043A", "U+043E", "U+0440", "U+043E", "U+0447", "U+0435">>,
  <<"U+043C", "U+043C", "U+043C">>,
  <<"U+043D", "U+0443">>,
  <<"U+043F", "U+043E", "U+043D", "U+0438", "U+043C", "U+0430", "U+0435", "U+0448", "U+044C">>,
  <<"U+0441", "U+043B", "U+0443", "U+0448", "U+0430", "U+0439">>,
  <<"U+0441", "U+043E", "U+0431", "U+0441", "U+0442", "U+0432", "U+0435", "U+043D", "U+043D", "U+043E">>,
  <<"U+0442", "U+0438", "U+043F", "U+0430">>,
  <<"U+044D", "U+0442", "U+043E">>,
  <<"U+044D", "U+044D", "U+044D">>
}

ENGLISH_SINGLE_FILLERS == {
  <<"a", "c", "t", "u", "a", "l", "l", "y">>,
  <<"b", "a", "s", "i", "c", "a", "l", "l", "y">>,
  <<"l", "i", "k", "e">>,
  <<"l", "i", "t", "e", "r", "a", "l", "l", "y">>,
  <<"o", "k", "a", "y">>,
  <<"r", "i", "g", "h", "t">>,
  <<"s", "o">>,
  <<"u", "h">>,
  <<"u", "m">>,
  <<"w", "e", "l", "l">>
}

CHINESE_SINGLE_FILLERS == {
  <<"U+5443">>,
  <<"U+554A">>,
  <<"U+55EF">>,
  <<"U+5BF9">>
}

RUSSIAN_PHRASE_FILLERS == <<
  <<"U+043A", "U+0430", "U+043A", " ", "U+0431", "U+044B">>,
  <<"U+0432", " ", "U+043E", "U+0431", "U+0449", "U+0435", "U+043C">>,
  <<"U+0442", "U+043E", " ", "U+0435", "U+0441", "U+0442", "U+044C">>,
  <<"U+0442", "U+0430", "U+043A", " ", "U+0441", "U+043A", "U+0430", "U+0437", "U+0430", "U+0442", "U+044C">>,
  <<"U+0432", " ", "U+043F", "U+0440", "U+0438", "U+043D", "U+0446", "U+0438", "U+043F", "U+0435">>
>>

ENGLISH_PHRASE_FILLERS == <<
  <<"y", "o", "u", " ", "k", "n", "o", "w">>,
  <<"i", " ", "m", "e", "a", "n">>,
  <<"s", "o", "r", "t", " ", "o", "f">>,
  <<"k", "i", "n", "d", " ", "o", "f">>
>>

CHINESE_PHRASE_FILLERS == <<
  <<"U+90A3", "U+4E2A">>,
  <<"U+8FD9", "U+4E2A">>,
  <<"U+5C31", "U+662F">>,
  <<"U+7136", "U+540E">>
>>

RUSSIAN_PROFANITY_STEMS == <<
  <<"U+0445", "U+0443", "U+0439">>,
  <<"U+0445", "U+0443", "U+0435">>,
  <<"U+0445", "U+0443", "U+044F">>,
  <<"U+0445", "U+0443", "U+0451">>,
  <<"U+043F", "U+0438", "U+0437", "U+0434">>,
  <<"U+0431", "U+043B", "U+044F", "U+0442">>,
  <<"U+0431", "U+043B", "U+044F", "U+0434">>,
  <<"U+0431", "U+043B", "U+044F", "U+0434", "U+044C">>,
  <<"U+0435", "U+0431", "U+0430", "U+0442">>,
  <<"U+0451", "U+0431", "U+0430", "U+043D">>,
  <<"U+0435", "U+0431", "U+0430", "U+043D">>,
  <<"U+0435", "U+0431", "U+043D", "U+0443">>,
  <<"U+0435", "U+0431", "U+0430", "U+043B">>,
  <<"U+0435", "U+0431", "U+043B", "U+043E">>,
  <<"U+0451", "U+0431", "U+0430", "U+043D">>,
  <<"U+0441", "U+0443", "U+043A", "U+0430">>,
  <<"U+0441", "U+0443", "U+0447", "U+043A">>,
  <<"U+0441", "U+0443", "U+0447", "U+0430", "U+0440">>,
  <<"U+043F", "U+0438", "U+0434", "U+043E", "U+0440">>,
  <<"U+043F", "U+0438", "U+0434", "U+0430", "U+0440">>,
  <<"U+0437", "U+0430", "U+043B", "U+0443", "U+043F">>,
  <<"U+043C", "U+0443", "U+0434", "U+0430">>,
  <<"U+043C", "U+0443", "U+0434", "U+0430", "U+043A">>,
  <<"U+043C", "U+0443", "U+0434", "U+0438", "U+043B">>,
  <<"U+0434", "U+0435", "U+0440", "U+044C", "U+043C">>,
  <<"U+0436", "U+043E", "U+043F", "U+0430">>,
  <<"U+0436", "U+043E", "U+043F">>
>>

\* str.lower() on the letters of the model alphabets (ASCII and Cyrillic capitals)
UpperChars == <<"A", "B", "C", "D", "E", "F", "G", "H", "I", "J", "K", "L", "M", "N", "O", "P", "Q", "R", "S", "T", "U", "V", "W", "X", "Y", "Z", "U+0410", "U+0411", "U+0412", "U+0413", "U+0414", "U+0415", "U+0416", "U+0417", "U+0418", "U+0419", "U+041A", "U+041B", "U+041C", "U+041D", "U+041E", "U+041F", "U+0420", "U+0421", "U+0422", "U+0423", "U+0424", "U+0425", "U+0426", "U+0427", "U+0428", "U+0429", "U+042A", "U+042B", "U+042C", "U+042D", "U+042E", "U+042F", "U+0401">>

LowerChars == <<"a", "b", "c", "d", "e", "f", "g", "h", "i", "j", "k", "l", "m", "n", "o", "p", "q", "r", "s", "t", "u", "v", "w", "x", "y", "z", "U+0430", "U+0431", "U+0432", "U+0433", "U+0434", "U+0435", "U+0436", "U+0437", "U+0438", "U+0439", "U+043A", "U+043B", "U+043C", "U+043D", "U+043E", "U+043F", "U+0440", "U+0441", "U+0442", "U+0443", "U+0444", "U+0445", "U+0446", "U+0447", "U+0448", "U+0449", "U+044A", "U+044B", "U+044C", "U+044D", "U+044E", "U+044F", "U+0451">>

LowerOf ==
  [c \in {UpperChars[i] : i \in 1..Len(UpperChars)} |->
     LowerChars[CHOOSE i \in 1..Len(UpperChars) : UpperChars[i] = c]]

Lower(c) == IF c \in DOMAIN LowerOf THEN LowerOf[c] ELSE c

LowerText(s) == [i \in 1..Len(s) |-> Lower(s[i])]

\* str.strip(): drop leading and trailing whitespace
RECURSIVE LStrip(_)
LStrip(s) == IF s # << >> /\ IsSpace(Head(s)) THEN LStrip(Tail(s)) ELSE s

RECURSIVE RStrip(_)
RStrip(s) ==
  IF s # << >> /\ IsSpace(s[Len(s)]) THEN RStrip(SubSeq(s, 1, Len(s) - 1)) ELSE s

Strip(s) == RStrip(LStrip(s))

\* re.sub(r'\s+', ' ', text)
RECURSIVE CollapseWhitespace(_)
CollapseWhitespace(s) ==
  IF s = << >> THEN << >>
  ELSE IF IsSpace(Head(s))
       THEN <<" ">> \o CollapseWhitespace(LStrip(s))
       ELSE <<Head(s)>> \o CollapseWhitespace(Tail(s))

\* str.split(): the maximal runs of non-whitespace characters
RECURSIVE SplitFrom(_, _)
SplitFrom(s, word) ==
  IF s = << >> THEN (IF word = << >> THEN << >> ELSE <<word>>)
  ELSE IF IsSpace(Head(s))
       THEN (IF word = << >> THEN << >> ELSE <<word>>) \o SplitFrom(Tail(s), << >>)
       ELSE SplitFrom(Tail(s), Append(word, Head(s)))

Split(s) == SplitFrom(s, << >>)

\* ' '.join(words)
RECURSIVE Join(_)
Join(words) ==
  IF words = << >> THEN << >>
  ELSE IF Len(words) = 1 THEN words[1]
       ELSE words[1] \o <<" ">> \o Join(Tail(words))

\* regex \b between s[k] and s[k+1] (k = 0: start of text, k = Len(s): end)
WordBoundary(s, k) ==
  (k >= 1 /\ IsWord(s[k])) # (k < Len(s) /\ IsWord(s[k + 1]))

\* re.compile(r'\b' + re.escape(phrase) + r'\b', re.IGNORECASE) matches at s[i..]
PhraseMatchesAt(s, i, phrase) ==
  /\ i + Len(phrase) - 1 <= Len(s)
  /\ WordBoundary(s, i - 1)
  /\ WordBoundary(s, i + Len(phrase) - 1)
  /\ \A k \in 1..Len(phrase) : Lower(s[i + k - 1]) = Lower(phrase[k])

\* pattern.sub('', text): leftmost non-overlapping matches are deleted
RECURSIVE RemovePhraseFrom(_, _, _)
RemovePhraseFrom(s, i, phrase) ==
  IF i > Len(s) THEN << >>
  ELSE IF PhraseMatchesAt(s, i, phrase)
       THEN RemovePhraseFrom(s, i + Len(phrase), phrase)
       ELSE <<s[i]>> \o RemovePhraseFrom(s, i + 1, phrase)

RemovePhrase(s, phrase) == RemovePhraseFrom(s, 1, phrase)

\* sorted(phrases, key=len, reverse=True): stable, longest first; a phrase goes
\* behind every phrase already placed that is at least as long
RECURSIVE InsertByLength(_, _)
InsertByLength(sorted, phrase) ==
  IF sorted = << >> THEN <<phrase>>
  ELSE IF Len(Head(sorted)) >= Len(phrase)
       THEN <<Head(sorted)>> \o InsertByLength(Tail(sorted), phrase)
       ELSE <<phrase>> \o sorted

RECURSIVE SortedLongestFirstFrom(_, _)
SortedLongestFirstFrom(phrases, sorted) ==
  IF phrases = << >> THEN sorted
  ELSE SortedLongestFirstFrom(Tail(phrases), InsertByLength(sorted, Head(phrases)))

SortedLongestFirst(phrases) == SortedLongestFirstFrom(phrases, << >>)

RECURSIVE RemovePhrases(_, _)
RemovePhrases(s, phrases) ==
  IF phrases = << >> THEN s
  ELSE RemovePhrases(RemovePhrase(s, Head(phrases)), Tail(phrases))

RECURSIVE KeepWords(_, _)
KeepWords(words, single_fillers) ==
  IF words = << >> THEN << >>
  ELSE IF LowerText(Head(words)) \in single_fillers
       THEN KeepWords(Tail(words), single_fillers)
       ELSE <<Head(words)>> \o KeepWords(Tail(words), single_fillers)

remove_fillers(text, single_fillers, phrase_fillers) ==
  Join(KeepWords(Split(RemovePhrases(text, SortedLongestFirst(phrase_fillers))),
                 single_fillers))

\* a stem occurs in the word-character run w, compared case-insensitively
ContainsStem(w, stems) ==
  \E n \in 1..Len(stems) : \E i \in 1..Len(w) :
    /\ i + Len(stems[n]) - 1 <= Len(w)
    /\ \A k \in 1..Len(stems[n]) : Lower(w[i + k - 1]) = Lower(stems[n][k])

\* r'\b\w*(?:stem|...)\w*\b'.sub('***', text): every maximal run of word
\* characters that contains a stem becomes ***
RECURSIVE CensorFrom(_, _, _)
CensorFrom(s, run, stems) ==
  LET flushed == IF run # << >> /\ ContainsStem(run, stems) THEN <<"*", "*", "*">> ELSE run
  IN IF s = << >> THEN flushed
     ELSE IF IsWord(Head(s))
          THEN CensorFrom(Tail(s), Append(run, Head(s)), stems)
          ELSE flushed \o <<Head(s)>> \o CensorFrom(Tail(s), << >>, stems)

censor_profanity(text, stems) == CensorFrom(text, << >>, stems)

RECURSIVE DropRepeats(_, _)
DropRepeats(words, i) ==
  IF i > Len(words) THEN << >>
  ELSE IF LowerText(words[i]) # LowerText(words[i - 1])
       THEN <<words[i]>> \o DropRepeats(words, i + 1)
       ELSE DropRepeats(words, i + 1)

remove_duplicates(text) ==
  LET words == Split(text)
  IN IF words = << >> THEN << >>
     ELSE Join(<<words[1]>> \o DropRepeats(words, 2))

\* re.sub(r'\s+([.,!?;:])', r'\1', text)
RECURSIVE SpaceBeforePunct(_)
SpaceBeforePunct(s) ==
  IF s = << >> THEN << >>
  ELSE IF IsSpace(Head(s))
       THEN LET rest == LStrip(s)
            IN IF rest # << >> /\ IsPunct(Head(rest))
               THEN SpaceBeforePunct(rest)
               ELSE SubSeq(s, 1, Len(s) - Len(rest)) \o SpaceBeforePunct(rest)
       ELSE <<Head(s)>> \o SpaceBeforePunct(Tail(s))

\* re.sub(r'([.,!?;:])\1+', r'\1', text)
RECURSIVE RepeatedPunct(_)
RepeatedPunct(s) ==
  IF s = << >> THEN << >>
  ELSE IF Len(s) >= 2 /\ IsPunct(s[1]) /\ s[2] = s[1]
       THEN RepeatedPunct(Tail(s))
       ELSE <<Head(s)>> \o RepeatedPunct(Tail(s))

Languages == {"en", "ru", "zh"}

\* TextPostProcessor.__init__: the tables selected by the language
TextPostProcessor(language, fillers, profanity) ==
  [language |-> language,
   remove_fillers |-> fillers,
   remove_profanity |-> profanity,
   single_fillers |-> IF language = "ru" THEN RUSSIAN_SINGLE_FILLERS
                      ELSE IF language = "zh" THEN CHINESE_SINGLE_FILLERS
                      ELSE ENGLISH_SINGLE_FILLERS,
   phrase_fillers |-> IF language = "ru" THEN RUSSIAN_PHRASE_FILLERS
                      ELSE IF language = "zh" THEN CHINESE_PHRASE_FILLERS
                      ELSE ENGLISH_PHRASE_FILLERS,
   profanity_stems |-> IF language = "ru" THEN RUSSIAN_PROFANITY_STEMS ELSE << >>]

\* variant: duplicates are collapsed before the fillers are removed
clean_text_duplicates_first(self, text) ==
  IF text = << >> THEN << >>
  ELSE LET t1 == Strip(CollapseWhitespace(text))
           t2 == remove_duplicates(t1)
           t3 == IF self.remove_fillers
                 THEN remove_fillers(t2, self.single_fillers, self.phrase_fillers)
                 ELSE t2
           t4 == IF self.remove_profanity /\ self.profanity_stems # << >>
                 THEN censor_profanity(t3, self.profanity_stems)
                 ELSE t3
       IN Strip(RepeatedPunct(SpaceBeforePunct(t4)))

\* variant: the empty text comes back as a blank
clean_text_blank_for_empty(self, text) ==
  IF text = << >> THEN <<" ">>
  ELSE LET t1 == Strip(CollapseWhitespace(text))
           t2 == IF self.remove_fillers
                 THEN remove_fillers(t1, self.single_fillers, self.phrase_fillers)
                 ELSE t1
           t3 == IF self.remove_profanity /\ self.profanity_stems # << >>
                 THEN censor_profanity(t2, self.profanity_stems)
                 ELSE t2
           t4 == remove_duplicates(t3)
       IN Strip(RepeatedPunct(SpaceBeforePunct(t4)))

clean_text(self, text) ==
  IF text = << >> THEN << >>
  ELSE LET t1 == Strip(CollapseWhitespace(text))
           t2 == IF self.remove_fillers
                 THEN remove_fillers(t1, self.single_fillers, self.phrase_fillers)
                 ELSE t1
           t3 == IF self.remove_profanity /\ self.profanity_stems # << >>
                 THEN censor_profanity(t2, self.profanity_stems)
                 ELSE t2
           t4 == remove_duplicates(t3)
       IN Strip(RepeatedPunct(SpaceBeforePunct(t4)))

(***************************************************************************)
(* Part 3: turning a recognition result into utterances                    *)
(* (Transcriber._process_whisper_result / _process_hf_result) and          *)
(* normalising them (TextPostProcessor.process_segments).                  *)
(***************************************************************************)

\* LANGUAGE_MODELS[language][model_variant]; _load_model falls back to
\* 'default' for a variant the language does not have
ModelName(language, model_variant) ==
  IF language = "en"
  THEN (IF model_variant = "whisperx" THEN "whisperx" ELSE "openai/whisper-large-v3")
  ELSE IF language = "ru"
  THEN (IF model_variant = "alternative" THEN "antony66/whisper-large-v3-russian"
        ELSE IF model_variant = "turbo" THEN "dvislobokov/whisper-large-v3-turbo-russian"
        ELSE "bond005/whisper-podlodka-turbo")
  ELSE "openai/whisper-large-v3"

\* _load_model: whisper.load_model for 'whisperx' and 'openai/whisper*' names,
\* a HuggingFace pipeline otherwise
IsWhisperModel(language, model_variant) ==
  ModelName(language, model_variant) \in {"whisperx", "openai/whisper-large-v3"}

process_whisper_result(result, speaker_segments) ==
  [i \in 1..Len(result.segments) |->
     LET segment == result.segments[i]
     IN [start |-> segment.start,
         end |-> segment.end,
         text |-> Strip(segment.text),
         speaker |-> segment_speaker(segment.start, segment.end, speaker_segments)]]

\* a chunk timestamp is a pair <<start, end>> or None (written << >>); an end of
\* the pair that is None is written NoTime
NoTime == -1
NoTimestamp == << >>

\* ts[0] if ts and ts[0] is not None else 0.0
TimestampOr0(ts, k) == IF ts # NoTimestamp /\ ts[k] # NoTime THEN ts[k] ELSE 0

process_hf_result(result, speaker_segments) ==
  IF result.has_chunks
  THEN [i \in 1..Len(result.chunks) |->
          LET chunk == result.chunks[i]
              start == TimestampOr0(chunk.timestamp, 1)
              end == TimestampOr0(chunk.timestamp, 2)
          IN [start |-> start,
              end |-> end,
              text |-> Strip(chunk.text),
              speaker |-> segment_speaker(start, end, speaker_segments)]]
  ELSE <<[start |-> 0, end |-> 0, text |-> Strip(result.text), speaker |-> None]>>

\* Transcriber.transcribe: the result handed to the processing that fits the model
transcribe_segments(is_whisper, result, speaker_segments) ==
  IF is_whisper
  THEN process_whisper_result(result, speaker_segments)
  ELSE process_hf_result(result, speaker_segments)

\* mutant: utterances whose cleaned text is empty are dropped
RECURSIVE process_segments_drop_empty(_, _)
process_segments_drop_empty(self, segments) ==
  IF segments = << >> THEN << >>
  ELSE LET segment == Head(segments)
           rest == process_segments_drop_empty(self, Tail(segments))
       IN IF clean_text(self, segment.text) = << >> THEN rest
          ELSE <<[start |-> segment.start, end |-> segment.end,
                  speaker |-> segment.speaker,
                  text |-> clean_text(self, segment.text),
                  original_text |-> segment.text]>> \o rest

process_segments(self, segments) ==
  [i \in 1..Len(segments) |->
     LET segment == segments[i]
     IN [start |-> segment.start,
         end |-> segment.end,
         speaker |-> segment.speaker,
         text |-> clean_text(self, segment.text),
         original_text |-> segment.text]]

\* ---- bounds of the alignment model ----
AlignMaxTime == 1
AlignMaxTurns == 1
AlignMaxSpans == 2

AlignTimes == 0..AlignMaxTime
\* speaker turns as the diarization hands them over: of positive duration
AlignTurns ==
  {t \in [speaker : Speakers, start : AlignTimes, end : AlignTimes] : t.start < t.end}
AlignIntervals == {iv \in AlignTimes \X AlignTimes : iv[1] <= iv[2]}
\* recognised texts: " um car " and " um "
AlignTexts == {<<" ", "u", "m", " ", "c", "a", "r", " ">>, <<" ", "u", "m", " ">>}
\* chunk["timestamp"] of a HuggingFace chunk: a pair whose ends may be None, or None
HFTimestamps ==
  AlignIntervals \cup {<<a, NoTime>> : a \in AlignTimes}
                 \cup {<<NoTime, b>> : b \in AlignTimes}
                 \cup {<<NoTime, NoTime>>, NoTimestamp}

WhisperResults ==
  {[segments |-> [i \in 1..Len(ivs) |-> [start |-> ivs[i][1], end |-> ivs[i][2], text |-> text]]] :
     ivs \in SeqsUpTo(AlignIntervals, AlignMaxSpans), text \in AlignTexts}

HFResults ==
  {[has_chunks |-> TRUE, text |-> text,
    chunks |-> [i \in 1..Len(tss) |-> [timestamp |-> tss[i], text |-> text]]] :
     tss \in SeqsUpTo(HFTimestamps, AlignMaxSpans), text \in AlignTexts}
  \cup {[has_chunks |-> FALSE, text |-> text, chunks |-> << >>] : text \in AlignTexts}

AlignInit ==
  /\ a_language \in Languages
  /\ a_turns \in SeqsUpTo(AlignTurns, AlignMaxTurns)
  /\ a_result \in IF IsWhisperModel(a_language, "default") THEN WhisperResults ELSE HFResults
  /\ a_segments = << >>
  /\ a_processed = << >>
  /\ a_pc = "transcribe"

\* Transcriber.transcribe after the model call returned a_result
AlignTranscribe ==
  /\ a_pc = "transcribe"
  /\ a_segments' = transcribe_segments(IsWhisperModel(a_language, "default"), a_result, a_turns)
  /\ a_pc' = "postprocess"
  /\ UNCHANGED <<a_language, a_turns, a_result, a_processed>>
  /\ UNCHANGED <<mvars, rvars, evars, ivars, tvars, kvars, cvars, yvars, wvars, svars, gvars>>

\* text_processor.process_segments(transcription_segments)
AlignProcessSegments ==
  /\ a_pc = "postprocess"
  /\ a_processed' = process_segments(TextPostProcessor(a_language, TRUE, TRUE), a_segments)
  /\ a_pc' = "done"
  /\ UNCHANGED <<a_language, a_turns, a_result, a_segments>>
  /\ UNCHANGED <<mvars, rvars, evars, ivars, tvars, kvars, cvars, yvars, wvars, svars, gvars>>

AlignNext == AlignTranscribe \/ AlignProcessSegments

\* ---- claims about alignment followed by normalisation ----
\* the recognised spans of the result: Whisper segments, or HuggingFace chunks
AlignHasSpans == IsWhisperModel(a_language, "default") \/ a_result.has_chunks
AlignSpanCount ==
  IF IsWhisperModel(a_language, "default") THEN Len(a_result.segments) ELSE Len(a_result.chunks)
\* the span carries both times (always for Whisper; a HuggingFace chunk may lack them)
AlignSpanTimed(i) ==
  \/ IsWhisperModel(a_language, "default")
  \/ /\ a_result.chunks[i].timestamp # NoTimestamp
     /\ a_result.chunks[i].timestamp[1] # NoTime
     /\ a_result.chunks[i].timestamp[2] # NoTime
AlignSpanStart(i) ==
  IF IsWhisperModel(a_language, "default") THEN a_result.segments[i].start
  ELSE a_result.chunks[i].timestamp[1]
AlignSpanEnd(i) ==
  IF IsWhisperModel(a_language, "default") THEN a_result.segments[i].end
  ELSE a_result.chunks[i].timestamp[2]

AlignIdle ==
  /\ a_language = "en"
  /\ a_turns = << >>
  /\ a_result = [segments |-> << >>]
  /\ a_segments = << >>
  /\ a_processed = << >>
  /\ a_pc = "idle"

(***************************************************************************)
(* Part 4: the export writers and the report (src/src/output.py).          *)
(* A file is named <<directory, stem, suffix>>; the file system is the set *)
(* of files that exist; unwritable is the set of files whose open() fails. *)
(***************************************************************************)

Stem == "talk"
\* self.output_dir / filename
OutputPath(filename) == <<"output", filename[1], filename[2]>>

\* open(output_path, 'w') and the write; on an error the writer logs and re-raises
WriteFile(output_path, files, unwritable) ==
  IF output_path \in unwritable
  THEN [raised |-> TRUE, files |-> files, path |-> output_path]
  ELSE [raised |-> FALSE, files |-> files \cup {output_path}, path |-> output_path]

save_json(filename, files, unwritable) ==
  WriteFile(OutputPath(filename), files, unwritable)

\* with no segments the path is returned and nothing is opened
save_csv(segments, filename, files, unwritable) ==
  IF segments = << >>
  THEN [raised |-> FALSE, files |-> files, path |-> OutputPath(filename)]
  ELSE WriteFile(OutputPath(filename), files, unwritable)

save_text(segments, filename, files, unwritable) ==
  WriteFile(OutputPath(filename), files, unwritable)

save_plain_text(segments, filename, files, unwritable) ==
  WriteFile(OutputPath(filename), files, unwritable)

\* the parameters create_summary_report accepts besides self
CreateSummaryReportParams == {"segments", "keywords", "speaker_stats", "metadata"}

MaxEnd(segments) ==
  IF segments = << >> THEN 0
  ELSE CHOOSE e \in {segments[i].end : i \in 1..Len(segments)} :
         \A i \in 1..Len(segments) : segments[i].end <= e

RECURSIVE TotalWords(_)
TotalWords(segments) ==
  IF segments = << >> THEN 0
  ELSE Len(Split(Head(segments).text)) + TotalWords(Tail(segments))

\* sorted(list(speakers)) of a set of speaker labels
SpeakersSorted == <<"SPEAKER_00", "SPEAKER_01">>

SortedLabels(labels) == SelectSeq(SpeakersSorted, LAMBDA label : label \in labels)

NoReport == [present |-> FALSE]

\* variant: the duration is the end of the last utterance
create_summary_report_last_end(kwargs) ==
  IF ~(DOMAIN kwargs \subseteq CreateSummaryReportParams)
  THEN [raised |-> TRUE, exception |-> "TypeError", report |-> NoReport]
  ELSE [raised |-> FALSE, exception |-> "none",
        report |->
          [present |-> TRUE,
           metadata |-> kwargs.metadata,
           statistics |->
             [total_segments |-> Len(kwargs.segments),
              total_duration |-> IF kwargs.segments = << >> THEN 0
                                ELSE kwargs.segments[Len(kwargs.segments)].end,
              total_words |-> TotalWords(kwargs.segments),
              speakers |-> SortedLabels({kwargs.segments[i].speaker :
                                           i \in 1..Len(kwargs.segments)} \ {None, ""})],
           keywords |-> kwargs.keywords,
           segments |-> kwargs.segments,
           has_speaker_statistics |-> kwargs.speaker_stats # << >>,
           speaker_statistics |-> kwargs.speaker_stats]]

\* the report built from the keyword arguments of the call; a keyword the
\* signature does not have is a TypeError raised by the call itself
create_summary_report(kwargs) ==
  IF ~(DOMAIN kwargs \subseteq CreateSummaryReportParams)
  THEN [raised |-> TRUE, exception |-> "TypeError", report |-> NoReport]
  ELSE [raised |-> FALSE, exception |-> "none",
        report |->
          [present |-> TRUE,
           metadata |-> kwargs.metadata,
           statistics |->
             [total_segments |-> Len(kwargs.segments),
              total_duration |-> MaxEnd(kwargs.segments),
              total_words |-> TotalWords(kwargs.segments),
              speakers |-> SortedLabels({kwargs.segments[i].speaker :
                                           i \in 1..Len(kwargs.segments)} \ {None, ""})],
           keywords |-> kwargs.keywords,
           segments |-> kwargs.segments,
           has_speaker_statistics |-> kwargs.speaker_stats # << >>,
           speaker_statistics |-> kwargs.speaker_stats]]

(***************************************************************************)
(* Part 5: one run of the orchestrator (src/src/pipeline.py):              *)
(* process_video / process_audio and _run_pipeline, one action per stage.  *)
(* A stage's action contains the except and finally clauses that run when  *)
(* the stage raises.                                                       *)
(***************************************************************************)

\* SpeakerDiarizer.get_speaker_statistics: speaking time per speaker
RECURSIVE SpeakingTime(_, _)
SpeakingTime(segments, speaker) ==
  IF segments = << >> THEN 0
  ELSE (IF Head(segments).speaker = speaker
        THEN Head(segments).end - Head(segments).start ELSE 0)
       + SpeakingTime(Tail(segments), speaker)

get_speaker_statistics(segments) ==
  [speaker \in {segments[i].speaker : i \in 1..Len(segments)} |->
     SpeakingTime(segments, speaker)]

\* ---- what the collaborators of a run may hand back ----
\* diarizer.diarize: no turn, or two turns of two speakers
RunTurnLists ==
  {<< >>,
   <<[speaker |-> "SPEAKER_00", start |-> 0, end |-> 1],
     [speaker |-> "SPEAKER_01", start |-> 1, end |-> 2]>>}

\* the recognition model: no span, or two spans (" um car " and " um ")
RunSpans ==
  {<< >>,
   <<[start |-> 0, end |-> 1, text |-> <<" ", "u", "m", " ", "c", "a", "r", " ">>],
     [start |-> 1, end |-> 2, text |-> <<" ", "u", "m", " ">>]>>}

RunWhisperResults == {[segments |-> spans] : spans \in RunSpans}

RunHFResults ==
  {[has_chunks |-> TRUE, text |-> << >>,
    chunks |-> [i \in 1..Len(spans) |->
                  [timestamp |-> <<spans[i].start, spans[i].end>>, text |-> spans[i].text]]] :
     spans \in RunSpans}

\* KeywordExtractor.extract_keywords_from_segments: nothing found, or one keyword
KeywordResults == {<< >>, <<[keyword |-> "car", score |-> 1]>>}

NoTypology == [present |-> FALSE]

\* AutomotiveTypologyAnalyzer.analyze_segments: the summary counts the segments
\* and those of them with automotive content
TypologyResults(segments) ==
  {[present |-> TRUE,
    summary |-> [total_automotive_segments |-> n, total_segments |-> Len(segments)]] :
     n \in 0..Len(segments)}

\* ---- the requested export formats ----
MaxFormats == 2

FormatNames == {"json", "csv", "txt", "plain", "plain_text", "xml"}

\* save_formats: None (given = FALSE) or a list of names, kept as the set of
\* its names since the code only tests membership
SaveFormats ==
  {[given |-> FALSE, names |-> {}]}
    \cup {[given |-> TRUE, names |-> names] :
            names \in {n \in SUBSET FormatNames : Cardinality(n) <= MaxFormats}}

ExportKinds == <<"json", "csv", "txt", "plain_text">>

Suffix(kind) ==
  CASE kind = "json" -> "_report.json"
    [] kind = "csv" -> "_segments.csv"
    [] kind = "txt" -> "_transcript.txt"
    [] kind = "plain_text" -> "_plain.txt"

\* the test that guards the writer of a kind
Requested(kind, save_formats) ==
  IF kind = "plain_text"
  THEN "plain" \in save_formats \/ "plain_text" \in save_formats
  ELSE kind \in save_formats

Save(kind, report, segments, base_filename, files, unwritable) ==
  CASE kind = "json" -> save_json(<<base_filename, Suffix(kind)>>, files, unwritable)
    [] kind = "csv" -> save_csv(segments, <<base_filename, Suffix(kind)>>, files, unwritable)
    [] kind = "txt" -> save_text(segments, <<base_filename, Suffix(kind)>>, files, unwritable)
    [] kind = "plain_text" ->
         save_plain_text(segments, <<base_filename, Suffix(kind)>>, files, unwritable)

\* the chain of `if ... in save_formats:` blocks from the k-th on: the first
\* writer that raises ends the chain
RECURSIVE ExportFrom(_, _, _, _, _, _, _, _)
ExportFrom(k, save_formats, report, segments, base_filename, files, unwritable, output_files) ==
  IF k > Len(ExportKinds)
  THEN [raised |-> FALSE, files |-> files, output_files |-> output_files]
  ELSE IF ~Requested(ExportKinds[k], save_formats)
  THEN ExportFrom(k + 1, save_formats, report, segments, base_filename, files, unwritable,
                  output_files)
  ELSE LET saved == Save(ExportKinds[k], report, segments, base_filename, files, unwritable)
       IN IF saved.raised
          THEN [raised |-> TRUE, files |-> saved.files, output_files |-> output_files]
          ELSE ExportFrom(k + 1, save_formats, report, segments, base_filename, saved.files,
                          unwritable, output_files \cup {<<ExportKinds[k], saved.path>>})

\* if save_formats is None: save_formats = ["json", "txt"]
Export(save_formats, report, segments, base_filename, files, unwritable) ==
  ExportFrom(1, IF save_formats.given THEN save_formats.names ELSE {"json", "txt"},
             report, segments, base_filename, files, unwritable, {})

Stages == {"audio_extraction", "diarization", "transcription", "postprocessing", "output"}
Collaborators == {"extract_audio", "get_audio_duration", "diarize", "transcribe"}

\* extract_audio's default output: the temp directory, the video's stem, .wav
TmpAudio == <<"tmp/llcar", Stem, ".wav">>

\* files whose open() fails in a run's environment: none, or the CSV export
RunUnwritable == {{}, {OutputPath(<<Stem, Suffix("csv")>>)}}

RunArgs ==
  {a \in [extract_keywords : BOOLEAN, keyword_method : {"tfidf", "textrank"},
          save_formats : SaveFormats] :
     a.extract_keywords \/ a.keyword_method = "tfidf"}

NoArgs ==
  [extract_keywords |-> TRUE, keyword_method |-> "tfidf",
   save_formats |-> [given |-> FALSE, names |-> {}]]

\* VideoPipeline.__init__ has run: the instance holds its language and the
\* automotive switch; no call has been made yet. The options the client passes
\* to its calls and the environment's unwritable files are fixed from here on
RunInit ==
  /\ r_language \in Languages
  /\ r_automotive \in BOOLEAN
  /\ r_pc = "idle"
  /\ r_kind = None
  /\ r_args \in RunArgs
  /\ r_unwritable \in RunUnwritable
  /\ r_steps = [s \in Stages |-> "absent"]
  /\ r_status = "absent"
  /\ r_error = "none"
  /\ r_exception = "none"
  /\ r_at = "none"
  /\ r_speaker_segments = << >>
  /\ r_speaker_stats = << >>
  /\ r_transcription = << >>
  /\ r_processed = << >>
  /\ r_keywords = << >>
  /\ r_typology = NoTypology
  /\ r_report = NoReport
  /\ r_output_files = {}
  /\ r_files = {}
  /\ r_removal = "none"
  /\ r_calls = [c \in Collaborators |-> 0]

\* mutant: the orchestrator's own existence test is missing; the missing file
\* is noticed by the first collaborator it calls
StartRun_check_in_collaborator(kind, exists, first) ==
  /\ r_pc \in {"idle", "returned", "raised"}
  /\ r_kind' = kind
  /\ r_steps' = [s \in Stages |-> "absent"]
  /\ r_status' = IF exists THEN "absent" ELSE "failed"
  /\ r_error' = IF exists THEN "none" ELSE "FileNotFoundError"
  /\ r_at' = "none"
  /\ r_speaker_segments' = << >>
  /\ r_speaker_stats' = << >>
  /\ r_transcription' = << >>
  /\ r_processed' = << >>
  /\ r_keywords' = << >>
  /\ r_typology' = NoTypology
  /\ r_report' = NoReport
  /\ r_output_files' = {}
  /\ r_calls' = [c \in Collaborators |->
                   IF ~exists /\ c = (IF kind = "video" THEN "extract_audio"
                                      ELSE "get_audio_duration")
                   THEN 1 ELSE 0]
  /\ IF exists
     THEN r_pc' = first /\ r_exception' = "none"
     ELSE r_pc' = "raised" /\ r_exception' = "FileNotFoundError"
  /\ r_removal' = "none"
  /\ UNCHANGED <<r_language, r_automotive, r_args, r_unwritable, r_files>>

\* a call starts: `if not path.exists(): raise FileNotFoundError`, then the
\* results dict with its empty "steps"
StartRun(kind, exists, first) ==
  /\ r_pc \in {"idle", "returned", "raised"}
  /\ r_kind' = kind
  /\ r_steps' = [s \in Stages |-> "absent"]
  /\ r_status' = "absent"
  /\ r_error' = "none"
  /\ r_at' = "none"
  /\ r_speaker_segments' = << >>
  /\ r_speaker_stats' = << >>
  /\ r_transcription' = << >>
  /\ r_processed' = << >>
  /\ r_keywords' = << >>
  /\ r_typology' = NoTypology
  /\ r_report' = NoReport
  /\ r_output_files' = {}
  /\ r_calls' = [c \in Collaborators |-> 0]
  /\ IF exists
     THEN r_pc' = first /\ r_exception' = "none"
     ELSE r_pc' = "raised" /\ r_exception' = "FileNotFoundError"
  /\ r_removal' = "none"
  /\ UNCHANGED <<r_language, r_automotive, r_args, r_unwritable, r_files>>

ProcessVideo ==
  /\ \E exists \in BOOLEAN : StartRun("video", exists, "extract")
  /\ UNCHANGED <<mvars, avars, evars, ivars, tvars, kvars, cvars, yvars, wvars, svars, gvars>>

ProcessAudio ==
  /\ \E exists \in BOOLEAN : StartRun("audio", exists, "duration")
  /\ UNCHANGED <<mvars, avars, evars, ivars, tvars, kvars, cvars, yvars, wvars, svars, gvars>>

\* mutant: no `finally:` clause, the extracted audio file is left behind
Finally_absent(files, extracted) ==
  /\ r_files' = files
  /\ r_removal' = "none"

\* the `finally:` of process_video: `if extracted_audio_path:` os.remove is
\* called; it removes the file, or raises OSError, which is caught and dropped
\* (`except OSError: pass`) with the file left where it is
Finally(files, extracted) ==
  IF extracted
  THEN \/ /\ r_files' = files \ {TmpAudio}
          /\ r_removal' = "removed"
       \/ /\ r_files' = files
          /\ r_removal' = "failed"
  ELSE /\ r_files' = files
       /\ r_removal' = "none"

\* `except Exception as e:` of process_video / process_audio, then the
\* `finally:` of process_video
RunFails(at, exception, calls, files, extracted) ==
  /\ r_status' = "failed"
  /\ r_error' = exception
  /\ r_exception' = exception
  /\ r_at' = at
  /\ r_pc' = "raised"
  /\ r_calls' = calls
  /\ Finally(files, extracted)

Called(c) == [r_calls EXCEPT ![c] = @ + 1]
CalledBoth(c, d) == [r_calls EXCEPT ![c] = @ + 1, ![d] = @ + 1]

\* process_video, step 1: extract_audio, get_audio_duration, the step's record
ExtractAudio ==
  /\ r_pc = "extract"
  /\ \/ /\ RunFails("audio_extraction", "ffmpeg.Error", Called("extract_audio"), r_files, FALSE)
        /\ UNCHANGED r_steps
     \/ /\ RunFails("audio_extraction", "DurationError",
                    CalledBoth("extract_audio", "get_audio_duration"),
                    r_files \cup {TmpAudio}, TRUE)
        /\ UNCHANGED r_steps
     \/ /\ r_files' = r_files \cup {TmpAudio}
        /\ r_calls' = CalledBoth("extract_audio", "get_audio_duration")
        /\ r_steps' = [r_steps EXCEPT !["audio_extraction"] = "completed"]
        /\ r_pc' = "diarize"
        /\ UNCHANGED <<r_status, r_error, r_exception, r_at, r_removal>>
  /\ UNCHANGED <<r_language, r_automotive, r_kind, r_args, r_unwritable, r_speaker_segments,
                 r_speaker_stats, r_transcription, r_processed, r_keywords, r_typology,
                 r_report, r_output_files>>
  /\ UNCHANGED <<mvars, avars, evars, ivars, tvars, kvars, cvars, yvars, wvars, svars, gvars>>

\* process_audio: get_audio_duration before the shared pipeline
GetAudioDuration ==
  /\ r_pc = "duration"
  /\ \/ RunFails("duration", "DurationError", Called("get_audio_duration"), r_files, FALSE)
     \/ /\ r_calls' = Called("get_audio_duration")
        /\ r_pc' = "diarize"
        /\ UNCHANGED <<r_status, r_error, r_exception, r_at, r_files, r_removal>>
  /\ UNCHANGED <<r_language, r_automotive, r_kind, r_args, r_unwritable, r_steps,
                 r_speaker_segments, r_speaker_stats, r_transcription, r_processed,
                 r_keywords, r_typology, r_report, r_output_files>>
  /\ UNCHANGED <<mvars, avars, evars, ivars, tvars, kvars, cvars, yvars, wvars, svars, gvars>>

\* mutant: the diarization returns and the run goes on, but the step's entry
\* is never written into results["steps"]
Diarize_unrecorded ==
  /\ r_pc = "diarize"
  /\ \/ /\ RunFails("diarization", "DiarizationError", Called("diarize"), r_files,
                    r_kind = "video")
        /\ UNCHANGED <<r_steps, r_speaker_segments, r_speaker_stats>>
     \/ /\ \E speaker_segments \in RunTurnLists :
             /\ r_speaker_segments' = speaker_segments
             /\ r_speaker_stats' = get_speaker_statistics(speaker_segments)
        /\ r_calls' = Called("diarize")
        /\ r_pc' = "transcribe"
        /\ UNCHANGED <<r_steps, r_status, r_error, r_exception, r_at, r_files, r_removal>>
  /\ UNCHANGED <<r_language, r_automotive, r_kind, r_args, r_unwritable, r_transcription,
                 r_processed, r_keywords, r_typology, r_report, r_output_files>>
  /\ UNCHANGED <<mvars, avars, evars, ivars, tvars, kvars, cvars, yvars, wvars, svars, gvars>>

\* _run_pipeline: speaker diarization
Diarize ==
  /\ r_pc = "diarize"
  /\ \/ /\ RunFails("diarization", "DiarizationError", Called("diarize"), r_files,
                    r_kind = "video")
        /\ UNCHANGED <<r_steps, r_speaker_segments, r_speaker_stats>>
     \/ /\ \E speaker_segments \in RunTurnLists :
             /\ r_speaker_segments' = speaker_segments
             /\ r_speaker_stats' = get_speaker_statistics(speaker_segments)
        /\ r_calls' = Called("diarize")
        /\ r_steps' = [r_steps EXCEPT !["diarization"] = "completed"]
        /\ r_pc' = "transcribe"
        /\ UNCHANGED <<r_status, r_error, r_exception, r_at, r_files, r_removal>>
  /\ UNCHANGED <<r_language, r_automotive, r_kind, r_args, r_unwritable, r_transcription,
                 r_processed, r_keywords, r_typology, r_report, r_output_files>>
  /\ UNCHANGED <<mvars, avars, evars, ivars, tvars, kvars, cvars, yvars, wvars, svars, gvars>>

\* _run_pipeline: transcription (the model call and the alignment)
Transcribe ==
  /\ r_pc = "transcribe"
  /\ \/ /\ RunFails("transcription", "TranscriptionError", Called("transcribe"), r_files,
                    r_kind = "video")
        /\ UNCHANGED <<r_steps, r_transcription>>
     \/ /\ \E result \in IF IsWhisperModel(r_language, "default")
                         THEN RunWhisperResults ELSE RunHFResults :
             r_transcription' = transcribe_segments(IsWhisperModel(r_language, "default"),
                                                    result, r_speaker_segments)
        /\ r_calls' = Called("transcribe")
        /\ r_steps' = [r_steps EXCEPT !["transcription"] = "completed"]
        /\ r_pc' = "postprocess"
        /\ UNCHANGED <<r_status, r_error, r_exception, r_at, r_files, r_removal>>
  /\ UNCHANGED <<r_language, r_automotive, r_kind, r_args, r_unwritable, r_speaker_segments,
                 r_speaker_stats, r_processed, r_keywords, r_typology, r_report,
                 r_output_files>>
  /\ UNCHANGED <<mvars, avars, evars, ivars, tvars, kvars, cvars, yvars, wvars, svars, gvars>>

\* mutant: the report stage is entered while the entity tagging is still to
\* be done (no fan-in barrier)
Postprocess_tagging_late ==
  /\ r_pc = "postprocess"
  /\ r_processed' = process_segments(TextPostProcessor(r_language, TRUE, TRUE), r_transcription)
  /\ IF r_args.extract_keywords
     THEN r_keywords' \in KeywordResults
     ELSE r_keywords' = << >>
  /\ r_typology' = NoTypology
  /\ r_steps' = [r_steps EXCEPT !["postprocessing"] = "completed"]
  /\ r_pc' = "output"
  /\ UNCHANGED <<r_language, r_automotive, r_kind, r_args, r_unwritable, r_status, r_error,
                 r_exception, r_at, r_speaker_segments, r_speaker_stats, r_transcription,
                 r_report, r_output_files, r_files, r_calls, r_removal>>
  /\ UNCHANGED <<mvars, avars, evars, ivars, tvars, kvars, cvars, yvars, wvars, svars, gvars>>

\* _run_pipeline: post-processing (normalisation, keywords, automotive typology)
Postprocess ==
  /\ r_pc = "postprocess"
  /\ r_processed' = process_segments(TextPostProcessor(r_language, TRUE, TRUE), r_transcription)
  /\ IF r_args.extract_keywords
     THEN r_keywords' \in KeywordResults
     ELSE r_keywords' = << >>
  /\ IF r_automotive
     THEN r_typology' \in TypologyResults(r_processed')
     ELSE r_typology' = NoTypology
  /\ r_steps' = [r_steps EXCEPT !["postprocessing"] = "completed"]
  /\ r_pc' = "output"
  /\ UNCHANGED <<r_language, r_automotive, r_kind, r_args, r_unwritable, r_status, r_error,
                 r_exception, r_at, r_speaker_segments, r_speaker_stats, r_transcription,
                 r_report, r_output_files, r_files, r_calls, r_removal>>
  /\ UNCHANGED <<mvars, avars, evars, ivars, tvars, kvars, cvars, yvars, wvars, svars, gvars>>

\* the keyword arguments of the create_summary_report call in _run_pipeline
ReportCall ==
  [segments |-> r_processed,
   keywords |-> r_keywords,
   speaker_stats |-> r_speaker_stats,
   automotive_typology |-> r_typology,
   metadata |-> [source_path_key |-> IF r_kind = "video" THEN "video_path" ELSE "audio_path",
                 language |-> r_language]]

\* _run_pipeline: generate output (the report, the export files, the final
\* results) and the return to the caller
Output ==
  /\ r_pc = "output"
  /\ LET made == create_summary_report(ReportCall)
         exported == Export(r_args.save_formats, made.report, r_processed, Stem, r_files,
                            r_unwritable)
     IN IF made.raised
        THEN /\ RunFails("output", made.exception, r_calls, r_files, r_kind = "video")
             /\ UNCHANGED <<r_steps, r_report, r_output_files>>
        ELSE IF exported.raised
        THEN /\ RunFails("output", "OSError", r_calls, exported.files, r_kind = "video")
             /\ r_report' = made.report
             /\ UNCHANGED <<r_steps, r_output_files>>
        ELSE /\ r_report' = made.report
             /\ r_output_files' = exported.output_files
             /\ r_steps' = [r_steps EXCEPT !["output"] = "completed"]
             /\ r_status' = "completed"
             /\ r_pc' = "returned"
             /\ Finally(exported.files, r_kind = "video")
             /\ UNCHANGED <<r_error, r_exception, r_at, r_calls>>
  /\ UNCHANGED <<r_language, r_automotive, r_kind, r_args, r_unwritable, r_speaker_segments,
                 r_speaker_stats, r_transcription, r_processed, r_keywords, r_typology>>
  /\ UNCHANGED <<mvars, avars, evars, ivars, tvars, kvars, cvars, yvars, wvars, svars, gvars>>

Next ==
  \/ ProcessVideo
  \/ ProcessAudio
  \/ ExtractAudio
  \/ GetAudioDuration
  \/ Diarize
  \/ Transcribe
  \/ Postprocess
  \/ Output

RunIdle ==
  /\ r_language = "en"
  /\ r_automotive = TRUE
  /\ r_pc = "off"
  /\ r_kind = None
  /\ r_args = NoArgs
  /\ r_unwritable = {}
  /\ r_steps = [s \in Stages |-> "absent"]
  /\ r_status = "absent"
  /\ r_error = "none"
  /\ r_exception = "none"
  /\ r_at = "none"
  /\ r_speaker_segments = << >>
  /\ r_speaker_stats = << >>
  /\ r_transcription = << >>
  /\ r_processed = << >>
  /\ r_keywords = << >>
  /\ r_typology = NoTypology
  /\ r_report = NoReport
  /\ r_output_files = {}
  /\ r_files = {}
  /\ r_removal = "none"
  /\ r_calls = [c \in Collaborators |-> 0]

(***************************************************************************)
(* Part 6: the OutputFormatter used on its own (as src/test_pipeline.py    *)
(* does): a client calls the writers and create_summary_report directly.   *)
(***************************************************************************)

FormatterSegmentLists ==
  {<< >>,
   <<[start |-> 0, end |-> 1, speaker |-> "SPEAKER_00", text |-> <<"c", "a", "r">>,
      original_text |-> <<" ", "u", "m", " ", "c", "a", "r", " ">>]>>}

FormatterPaths == {OutputPath(<<Stem, Suffix(ExportKinds[k])>>) : k \in 1..Len(ExportKinds)}

\* OutputFormatter.__init__ has run (the output directory exists); nothing is
\* written yet
FormatterInit ==
  /\ e_segments \in FormatterSegmentLists
  /\ e_unwritable \in {u \in SUBSET FormatterPaths : Cardinality(u) <= 1}
  /\ e_files = {}
  /\ e_returned = {}
  /\ e_last = "none"
  /\ e_report = NoReport

\* a writer returned its path, or raised
Saved(saved) ==
  /\ e_files' = saved.files
  /\ e_returned' = IF saved.raised THEN e_returned ELSE e_returned \cup {saved.path}
  /\ e_last' = IF saved.raised THEN "raised" ELSE "returned"
  /\ UNCHANGED <<e_segments, e_unwritable, e_report>>

FormatterSaveJson ==
  /\ e_last # "off"
  /\ Saved(save_json(<<Stem, Suffix("json")>>, e_files, e_unwritable))
  /\ UNCHANGED <<mvars, avars, rvars, ivars, tvars, kvars, cvars, yvars, wvars, svars, gvars>>

FormatterSaveCsv ==
  /\ e_last # "off"
  /\ Saved(save_csv(e_segments, <<Stem, Suffix("csv")>>, e_files, e_unwritable))
  /\ UNCHANGED <<mvars, avars, rvars, ivars, tvars, kvars, cvars, yvars, wvars, svars, gvars>>

FormatterSaveText ==
  /\ e_last # "off"
  /\ Saved(save_text(e_segments, <<Stem, Suffix("txt")>>, e_files, e_unwritable))
  /\ UNCHANGED <<mvars, avars, rvars, ivars, tvars, kvars, cvars, yvars, wvars, svars, gvars>>

FormatterSavePlainText ==
  /\ e_last # "off"
  /\ Saved(save_plain_text(e_segments, <<Stem, Suffix("plain_text")>>, e_files, e_unwritable))
  /\ UNCHANGED <<mvars, avars, rvars, ivars, tvars, kvars, cvars, yvars, wvars, svars, gvars>>

\* create_summary_report(segments=..., keywords=..., speaker_stats=...)
FormatterCreateSummaryReport ==
  /\ e_last # "off"
  /\ \E keywords \in KeywordResults :
       LET made == create_summary_report(
                     [segments |-> e_segments, keywords |-> keywords,
                      speaker_stats |-> get_speaker_statistics(e_segments),
                      metadata |-> << >>])
       IN /\ e_report' = made.report
          /\ e_last' = IF made.raised THEN "raised" ELSE "returned"
  /\ UNCHANGED <<e_segments, e_unwritable, e_files, e_returned>>
  /\ UNCHANGED <<mvars, avars, rvars, ivars, tvars, kvars, cvars, yvars, wvars, svars, gvars>>

FormatterNext ==
  \/ FormatterSaveJson
  \/ FormatterSaveCsv
  \/ FormatterSaveText
  \/ FormatterSavePlainText
  \/ FormatterCreateSummaryReport

FormatterIdle ==
  /\ e_segments = << >>
  /\ e_unwritable = {}
  /\ e_files = {}
  /\ e_returned = {}
  /\ e_last = "off"
  /\ e_report = NoReport


(***************************************************************************)
(* Claims about a run of the orchestrator and about the export writers.    *)
(***************************************************************************)
RunEnded == r_pc \in {"returned", "raised"}

\* every collaborator call of the run returned: the run got past post-processing
CollaboratorsReturned == r_steps["postprocessing"] = "completed"

\* the export kinds the call asks for
RequestedKinds ==
  {ExportKinds[k] : k \in {j \in 1..Len(ExportKinds) :
     Requested(ExportKinds[j],
               IF r_args.save_formats.given THEN r_args.save_formats.names
               ELSE {"json", "txt"})}}

RecognizedNames == {"json", "csv", "txt", "plain", "plain_text"}

\* C5: when entity analysis ran in a run, the report the orchestrator assembles
\* exists and carries the entity findings the tagger produced, next to the
\* utterances, the keywords and the speaker-time-share map.
C5_ReportCarriesEntityFindings ==
  (RunEnded /\ CollaboratorsReturned /\ r_typology.present) =>
    /\ r_report.present
    /\ r_report.segments = r_processed
    /\ r_report.keywords = r_keywords
    /\ "automotive_typology" \in DOMAIN r_report
    /\ r_report.automotive_typology = r_typology

\* C6: a run whose collaborators all returned, with no turns, no spans, no
\* keywords or no entity findings, returns a result with status 'completed'
\* and a report, and raises nothing.
C6_EmptyInputsComplete ==
  (/\ RunEnded
   /\ CollaboratorsReturned
   /\ r_unwritable = {}
   /\ \/ r_speaker_segments = << >>
      \/ r_transcription = << >>
      \/ r_keywords = << >>
      \/ (r_typology.present /\ r_typology.summary.total_automotive_segments = 0)) =>
    /\ r_pc = "returned"
    /\ r_status = "completed"
    /\ r_exception = "none"
    /\ r_report.present

\* C7: when audio extraction, diarization or transcription raised, the run ends
\* raised with the failing stage recorded as failed in results['steps'], the
\* reason recorded, and the failing collaborator called once (no retry).
C7_FailedStageRecorded ==
  (r_pc = "raised" /\ r_at \in {"audio_extraction", "diarization", "transcription"}) =>
    /\ r_steps[r_at] = "failed"
    /\ r_error # "none"
    /\ r_exception # "none"
    /\ \A c \in Collaborators : r_calls[c] <= 1

\* C8: when the CSV export cannot be written, the caller still obtains the
\* report, the other requested formats are written and stay in place, and the
\* failure is attributed to the CSV format alone.
C8_WriteFailureReportedPerFormat ==
  (/\ RunEnded
   /\ CollaboratorsReturned
   /\ r_processed # << >>
   /\ "csv" \in RequestedKinds
   /\ OutputPath(<<Stem, Suffix("csv")>>) \in r_unwritable) =>
    /\ r_pc = "returned"
    /\ r_report.present
    /\ \A kind \in RequestedKinds \ {"csv"} :
         /\ OutputPath(<<Stem, Suffix(kind)>>) \in r_files
         /\ <<kind, OutputPath(<<Stem, Suffix(kind)>>)>> \in r_output_files

\* C9: a run asked for an export format name that is not recognized ends with
\* an error raised for that name (a caller error), not with the outcome of its
\* stages.
C9_UnknownFormatIsCallerError ==
  (/\ RunEnded
   /\ CollaboratorsReturned
   /\ r_args.save_formats.given
   /\ r_args.save_formats.names \ RecognizedNames # {}) =>
    /\ r_pc = "raised"
    /\ r_at = "save_formats"

\* C10: every path an export writer returned (the paths a run lists in
\* output_files) refers to a file that was written, also when there are no
\* utterances.
C10_ReturnedPathsAreWritten ==
  \A path \in e_returned : path \in e_files

\* the report call of the run is being made or has been made
ReportCallReached == r_pc = "output" \/ r_at = "output" \/ r_report.present

\* an export file of the run's input exists
ExportFileExists ==
  \E k \in 1..Len(ExportKinds) : OutputPath(<<Stem, Suffix(ExportKinds[k])>>) \in r_files

C11_NotFoundBeforeAnyStage ==
  [][(r_pc' = "raised" /\ r_exception' = "FileNotFoundError") =>
       /\ r_pc \in {"idle", "returned", "raised"}
       /\ \A c \in Collaborators : r_calls'[c] = 0
       /\ \A s \in Stages : r_steps'[s] = "absent"
       /\ r_status' = "absent"
       /\ r_output_files' = {}
       /\ r_files' = r_files]_vars

\* C11 witness: a call for a missing file has just failed
C11_Witness ==
  /\ r_pc = "raised"
  /\ r_exception = "FileNotFoundError"
  /\ r_at = "none"
  /\ \A c \in Collaborators : r_calls[c] = 0

\* the stages in the order the orchestrator runs them: audio_extraction is a
\* stage of a video run only
StageOrder ==
  IF r_kind = "video"
  THEN <<"audio_extraction", "diarization", "transcription", "postprocessing", "output">>
  ELSE <<"diarization", "transcription", "postprocessing", "output">>

\* C25: at every moment of every run, a stage recorded 'completed' in
\* results["steps"] has all the stages before it in the order recorded
\* 'completed' too, a stage outside the order of the run is never recorded, and
\* results["status"] is 'completed' only with the output stage recorded.
C25_CompletedStagesFormPrefix ==
  /\ \A i \in 1..Len(StageOrder) :
       r_steps[StageOrder[i]] = "completed" =>
         \A j \in 1..(i - 1) : r_steps[StageOrder[j]] = "completed"
  /\ \A s \in Stages :
       r_steps[s] = "completed" => \E i \in 1..Len(StageOrder) : StageOrder[i] = s
  /\ r_status = "completed" => r_steps["output"] = "completed"

\* C25 witness: a video run failed in its output stage with the four stages
\* before it recorded and the output stage not recorded
C25_Witness ==
  /\ r_pc = "raised"
  /\ r_kind = "video"
  /\ r_status = "failed"
  /\ r_at = "output"
  /\ r_steps["audio_extraction"] = "completed"
  /\ r_steps["diarization"] = "completed"
  /\ r_steps["transcription"] = "completed"
  /\ r_steps["postprocessing"] = "completed"
  /\ r_steps["output"] # "completed"

\* extract_audio returned its path in this video run (get_audio_duration is
\* called with that path, and only then)
ExtractionReturned == r_kind = "video" /\ r_calls["get_audio_duration"] > 0

\* C26 as stated: once extraction has returned a path, the temporary audio
\* file no longer exists when process_video returns or raises.
C26_Original ==
  (RunEnded /\ ExtractionReturned) => TmpAudio \notin r_files

\* C26 amended: once extraction has returned a path, process_video calls
\* os.remove on the temporary audio file on every exit path, after a completed
\* run and after a failure in any later stage alike, and never before the exit;
\* when process_video returns or raises the file no longer exists unless that
\* os.remove raised OSError, which is dropped. Without a returned path no
\* removal is attempted.
C26_RemovalAttemptedOnEveryExit ==
  /\ (RunEnded /\ ExtractionReturned) =>
       /\ r_removal \in {"removed", "failed"}
       /\ r_removal = "removed" => TmpAudio \notin r_files
  /\ (RunEnded /\ ~ExtractionReturned) => r_removal = "none"
  /\ ~RunEnded => r_removal = "none"

\* C26 witness: a video run raised in its transcription stage and the
\* temporary audio file extraction had written is gone
C26_Witness ==
  /\ r_pc = "raised"
  /\ ExtractionReturned
  /\ r_at = "transcription"
  /\ r_removal = "removed"
  /\ TmpAudio \notin r_files

(***************************************************************************)
(* Part 7: the construction of a pipeline (VideoPipeline.__init__ and the  *)
(* constructors it calls), one action per component constructed.           *)
(***************************************************************************)

\* the languages a caller may ask for: the supported ones and one that is not
RequestedLanguages == Languages \cup {"de"}

\* the keys of LANGUAGE_MODELS
LANGUAGE_MODELS == {"en", "ru", "zh"}

ModelVariants == {"default", "alternative", "turbo", "whisperx", "large"}

DiarizationModel == "pyannote/speaker-diarization-3.1"

\* VideoPipeline(language, model_variant, hf_token) is entered; hf_token stands
\* for `hf_token or os.getenv("HF_TOKEN")` being non-empty
ConstructInit ==
  /\ i_language \in RequestedLanguages
  /\ i_model_variant \in ModelVariants
  /\ i_hf_token \in BOOLEAN
  /\ i_pc = "audio_extractor"
  /\ i_exception = "none"
  /\ i_checks = << >>
  /\ i_loaded = {}

\* self.audio_extractor = AudioExtractor(...): stores its settings
ConstructAudioExtractor ==
  /\ i_pc = "audio_extractor"
  /\ i_pc' = "diarizer"
  /\ UNCHANGED <<i_language, i_model_variant, i_hf_token, i_exception, i_checks, i_loaded>>
  /\ UNCHANGED <<mvars, avars, rvars, evars, tvars, kvars, cvars, yvars, wvars, svars, gvars>>

\* self.diarizer = SpeakerDiarizer(hf_token, device): the credential check, then
\* _load_pipeline, which loads the diarization model or re-raises
ConstructDiarizer ==
  /\ i_pc = "diarizer"
  /\ i_checks' = Append(i_checks, "credential")
  /\ IF ~i_hf_token
     THEN /\ i_pc' = "raised"
          /\ i_exception' = "ValueError: HuggingFace token is required"
          /\ UNCHANGED i_loaded
     ELSE \/ /\ i_pc' = "raised"
             /\ i_exception' = "diarization model load error"
             /\ UNCHANGED i_loaded
          \/ /\ i_pc' = "transcriber"
             /\ i_loaded' = i_loaded \cup {DiarizationModel}
             /\ UNCHANGED i_exception
  /\ UNCHANGED <<i_language, i_model_variant, i_hf_token>>
  /\ UNCHANGED <<mvars, avars, rvars, evars, tvars, kvars, cvars, yvars, wvars, svars, gvars>>

\* self.transcriber = Transcriber(language, model_variant, device): _load_model
\* tests the language, then loads the recognition model or re-raises
ConstructTranscriber ==
  /\ i_pc = "transcriber"
  /\ i_checks' = Append(i_checks, "language")
  /\ IF i_language \notin LANGUAGE_MODELS
     THEN /\ i_pc' = "raised"
          /\ i_exception' = "ValueError: Unsupported language"
          /\ UNCHANGED i_loaded
     ELSE \/ /\ i_pc' = "raised"
             /\ i_exception' = "transcription model load error"
             /\ UNCHANGED i_loaded
          \/ /\ i_pc' = "rest"
             /\ i_loaded' = i_loaded \cup {ModelName(i_language, i_model_variant)}
             /\ UNCHANGED i_exception
  /\ UNCHANGED <<i_language, i_model_variant, i_hf_token>>
  /\ UNCHANGED <<mvars, avars, rvars, evars, tvars, kvars, cvars, yvars, wvars, svars, gvars>>

\* TextPostProcessor, KeywordExtractor and OutputFormatter are constructed
ConstructRest ==
  /\ i_pc = "rest"
  /\ i_pc' = "constructed"
  /\ UNCHANGED <<i_language, i_model_variant, i_hf_token, i_exception, i_checks, i_loaded>>
  /\ UNCHANGED <<mvars, avars, rvars, evars, tvars, kvars, cvars, yvars, wvars, svars, gvars>>

ConstructNext ==
  \/ ConstructAudioExtractor
  \/ ConstructDiarizer
  \/ ConstructTranscriber
  \/ ConstructRest

ConstructIdle ==
  /\ i_language = "en"
  /\ i_model_variant = "default"
  /\ i_hf_token = TRUE
  /\ i_pc = "off"
  /\ i_exception = "none"
  /\ i_checks = << >>
  /\ i_loaded = {}

\* C12: the construction of a pipeline for a language outside {en, ru, zh} ends
\* with the unsupported-language error, raised before any other validation was
\* made and before any model was loaded.
C12_UnsupportedLanguageFirst ==
  (i_language \notin Languages /\ i_pc \in {"raised", "constructed"}) =>
    /\ i_pc = "raised"
    /\ i_exception = "ValueError: Unsupported language"
    /\ i_checks = <<"language">>
    /\ i_loaded = {}

(***************************************************************************)
(* Part 9: the normaliser used on its own                                  *)
(* (TextPostProcessor.clean_text applied once, then to its own result).    *)
(***************************************************************************)

\* the longest text is made of MaxTokens tokens
MaxTokens == 3

\* tokens the texts are made of: an English filler, the two halves of an
\* English filler phrase, a word in two spellings, a word with attached
\* punctuation, a punctuation mark on its own, a Russian profane word, and
\* the empty token (which puts whitespace runs and leading or trailing
\* whitespace into the joined text)
CleanTokens == {
  <<"u", "m">>,
  <<"y", "o", "u">>,
  <<"k", "n", "o", "w">>,
  <<"c", "a", "r">>,
  <<"C", "a", "r">>,
  <<"c", "a", "r", ".">>,
  <<".">>,
  <<"U+0441", "U+0443", "U+043A", "U+0430">>,
  << >>
}

\* 'um well this is a test test'
ExampleText ==
  <<"u", "m", " ", "w", "e", "l", "l", " ", "t", "h", "i", "s", " ", "i", "s",
    " ", "a", " ", "t", "e", "s", "t", " ", "t", "e", "s", "t">>

\* "um well like you know this is a test test" (test_text_processor)
test_text ==
  <<"u", "m", " ", "w", "e", "l", "l", " ", "l", "i", "k", "e", " ", "y", "o", "u",
    " ", "k", "n", "o", "w", " ", "t", "h", "i", "s", " ", "i", "s", " ", "a", " ",
    "t", "e", "s", "t", " ", "t", "e", "s", "t">>

CleanTexts ==
  {Join(tokens) : tokens \in UNION {[1..n -> CleanTokens] : n \in 0..MaxTokens}}
    \cup {ExampleText, test_text}

CleanInit ==
  /\ t_language \in Languages
  /\ t_fillers \in BOOLEAN
  /\ t_profanity \in BOOLEAN
  /\ t_text \in CleanTexts
  /\ t_once = << >>
  /\ t_twice = << >>
  /\ t_pc = "start"

CleanSelf == TextPostProcessor(t_language, t_fillers, t_profanity)

\* out = processor.clean_text(text)
CleanOnce ==
  /\ t_pc = "start"
  /\ t_once' = clean_text(CleanSelf, t_text)
  /\ t_pc' = "once"
  /\ UNCHANGED <<t_language, t_fillers, t_profanity, t_text, t_twice>>
  /\ UNCHANGED <<mvars, avars, rvars, evars, ivars, kvars, cvars, yvars, wvars, svars, gvars>>

\* again = processor.clean_text(out)
CleanTwice ==
  /\ t_pc = "once"
  /\ t_twice' = clean_text(CleanSelf, t_once)
  /\ t_pc' = "twice"
  /\ UNCHANGED <<t_language, t_fillers, t_profanity, t_text, t_once>>
  /\ UNCHANGED <<mvars, avars, rvars, evars, ivars, kvars, cvars, yvars, wvars, svars, gvars>>

CleanNext == CleanOnce \/ CleanTwice

\* the text holds no filler word or phrase of the language and no profanity:
\* neither removal pass changes the whitespace-normalised text
FreeOfFillersAndProfanity(language, text) ==
  LET tables == TextPostProcessor(language, TRUE, TRUE)
      t1 == Strip(CollapseWhitespace(text))
  IN /\ remove_fillers(t1, tables.single_fillers, tables.phrase_fillers) = t1
     /\ censor_profanity(t1, RUSSIAN_PROFANITY_STEMS) = t1

\* C15: cleaning a text that holds no filler and no profanity a second time
\* changes nothing: clean_text(clean_text(x)) = clean_text(x), in every
\* language configuration.
C15_CleanIsIdempotent ==
  (t_pc = "twice" /\ FreeOfFillersAndProfanity(t_language, t_text)) =>
    t_twice = t_once

\* the five passes of the claim, each on its own
PassWhitespace(text) == Strip(CollapseWhitespace(text))

PassFillers(self, text) ==
  IF self.remove_fillers
  THEN Join(KeepWords(Split(RemovePhrases(text, SortedLongestFirst(self.phrase_fillers))),
                      self.single_fillers))
  ELSE text

PassProfanity(self, text) ==
  IF self.remove_profanity /\ self.language = "ru"
  THEN censor_profanity(text, RUSSIAN_PROFANITY_STEMS)
  ELSE text

PassDuplicates(text) == remove_duplicates(text)

PassPunctuation(text) == Strip(RepeatedPunct(SpaceBeforePunct(text)))

ThisIsATest ==
  <<"t", "h", "i", "s", " ", "i", "s", " ", "a", " ", "t", "e", "s", "t">>

\* C16: the result of clean_text is the result of the five passes applied in
\* the order whitespace, fillers (phrases longest first, then single words),
\* profanity, duplicates, punctuation; for English with filler removal on,
\* 'um well this is a test test' gives 'this is a test'.
C16_CleanIsOrderedComposition ==
  t_pc \in {"once", "twice"} =>
    /\ t_once =
         PassPunctuation(PassDuplicates(PassProfanity(CleanSelf,
           PassFillers(CleanSelf, PassWhitespace(t_text)))))
    /\ ((t_text \in {ExampleText, test_text} /\ t_language = "en" /\ t_fillers) => t_once = ThisIsATest)

\* a filler between two spellings of one word: the duplicate shows only
\* after the filler is gone, and one pass removes both
C16_Witness ==
  /\ t_pc = "once"
  /\ t_language = "en"
  /\ t_fillers
  /\ t_text = <<"c", "a", "r", " ", "u", "m", " ", "C", "a", "r">>
  /\ t_once = <<"c", "a", "r">>

IsString(s) == DOMAIN s = 1..Len(s) /\ \A i \in 1..Len(s) : s[i] \in STRING

\* C17: clean_text returns the empty string for the empty string, and for
\* every text its result is a string.
C17_EmptyInEmptyOut ==
  t_pc \in {"once", "twice"} =>
    /\ IsString(t_once)
    /\ (t_text = << >> => t_once = << >>)
    /\ (t_pc = "twice" => IsString(t_twice))
    /\ ((t_pc = "twice" /\ t_once = << >>) => t_twice = << >>)

C17_Witness ==
  /\ t_pc = "once"
  /\ t_text = << >>
  /\ t_once = << >>

CleanIdle ==
  /\ t_language = "en"
  /\ t_fillers = TRUE
  /\ t_profanity = TRUE
  /\ t_text = << >>
  /\ t_once = << >>
  /\ t_twice = << >>
  /\ t_pc = "off"

(***************************************************************************)
(* Part 10: keyword extraction (KeywordExtractor).                         *)
(* TfidfVectorizer and summa's keywords are libraries: what they return    *)
(* for the documents is chosen when the extractor is set up, and they are  *)
(* allowed to raise.                                                       *)
(***************************************************************************)

\* the longest list of utterance texts
MaxTexts == 2
\* the largest top_n
MaxTopN == 2
\* averaged weights are 1..MaxScore
MaxScore == 2

\* the terms of the documents, in the order get_feature_names_out lists
\* them (sorted by term)
Vocabulary == <<"car", "engine", "wheel">>

Rank(term) == CHOOSE i \in 1..Len(Vocabulary) : Vocabulary[i] = term

\* seg.get("text", "") of the segments: empty, blank, or with words
KeywordTexts == {<< >>, <<" ">>, <<"c", "a", "r">>}

KeywordTextLists == UNION {[1..n -> KeywordTexts] : n \in 0..MaxTexts}

\* the strategy names: the two the extractor knows and one it does not
KeywordMethods == {"tfidf", "textrank", "rake"}

\* zip(feature_names, avg_scores): terms in feature order with their weights
FeatureLists ==
  {f \in UNION {[1..n -> [keyword : {Vocabulary[i] : i \in 1..Len(Vocabulary)},
                          score : 1..MaxScore]] : n \in 1..Len(Vocabulary)} :
     \A i \in 1..(Len(f) - 1) : Rank(f[i].keyword) < Rank(f[i + 1].keyword)}

VectorizerOutcomes ==
  {[raised |-> TRUE, features |-> << >>]}
    \cup {[raised |-> FALSE, features |-> f] : f \in FeatureLists}

TextrankOutcomes ==
  {[raised |-> TRUE, keywords |-> << >>]}
    \cup {[raised |-> FALSE, keywords |-> k] :
            k \in {<< >>, <<"engine">>, <<"wheel", "car">>}}

\* not t.strip()
Blank(t) == Strip(t) = << >>

AllBlank(texts) == \A i \in 1..Len(texts) : Blank(texts[i])

\* vectorizer.fit_transform(docs): no term in any document is an error
\* (ValueError: empty vocabulary), otherwise the outcome of the library
FitTransform(docs, vectorizer) ==
  IF AllBlank(docs) THEN [raised |-> TRUE, features |-> << >>] ELSE vectorizer

\* sorted(..., key=lambda x: x[1], reverse=True): stable, so an item goes
\* behind every item already placed whose score is at least its own
RECURSIVE InsertByScore(_, _)
InsertByScore(sorted, item) ==
  IF sorted = << >> THEN <<item>>
  ELSE IF Head(sorted).score >= item.score
       THEN <<Head(sorted)>> \o InsertByScore(Tail(sorted), item)
       ELSE <<item>> \o sorted

RECURSIVE SortedByScoreFrom(_, _)
SortedByScoreFrom(items, sorted) ==
  IF items = << >> THEN sorted
  ELSE SortedByScoreFrom(Tail(items), InsertByScore(sorted, Head(items)))

SortedByScore(items) == SortedByScoreFrom(items, << >>)

\* variant of the sort: an item goes in front of the items of equal score
RECURSIVE InsertByScoreBeforeEqual(_, _)
InsertByScoreBeforeEqual(sorted, item) ==
  IF sorted = << >> THEN <<item>>
  ELSE IF Head(sorted).score > item.score
       THEN <<Head(sorted)>> \o InsertByScoreBeforeEqual(Tail(sorted), item)
       ELSE <<item>> \o sorted

RECURSIVE SortedByScoreBeforeEqualFrom(_, _)
SortedByScoreBeforeEqualFrom(items, sorted) ==
  IF items = << >> THEN sorted
  ELSE SortedByScoreBeforeEqualFrom(Tail(items),
                                    InsertByScoreBeforeEqual(sorted, Head(items)))

\* keyword_scores[:top_n] for top_n >= 0
FirstN(items, top_n) ==
  SubSeq(items, 1, IF top_n < Len(items) THEN top_n ELSE Len(items))

Returned(result, algorithm, log) ==
  [raised |-> FALSE, result |-> result, algorithm |-> algorithm, log |-> log]

Raised(algorithm, log) ==
  [raised |-> TRUE, result |-> << >>, algorithm |-> algorithm, log |-> log]

\* variant: ties come out in reverse feature order
extract_tfidf_keywords_ties_reversed(texts, top_n, vectorizer) ==
  IF texts = << >> \/ AllBlank(texts) THEN Returned(<< >>, "tfidf", {})
  ELSE LET docs == SelectSeq(texts, LAMBDA t : ~Blank(t))
           fitted == FitTransform(docs, vectorizer)
       IN IF docs = << >> THEN Returned(<< >>, "tfidf", {})
          ELSE IF fitted.raised
               THEN Returned(<< >>, "tfidf", {"error: Error extracting TF-IDF keywords"})
               ELSE Returned(FirstN(SortedByScoreBeforeEqualFrom(fitted.features, << >>),
                                    top_n), "tfidf", {})

\* variant: no test for blank input and no handler around the library
extract_tfidf_keywords_unguarded(texts, top_n, vectorizer) ==
  LET fitted == FitTransform(texts, vectorizer)
  IN IF fitted.raised THEN Raised("tfidf", {})
     ELSE Returned(FirstN(SortedByScore(fitted.features), top_n), "tfidf", {})

\* KeywordExtractor.extract_tfidf_keywords
extract_tfidf_keywords(texts, top_n, vectorizer) ==
  IF texts = << >> \/ AllBlank(texts) THEN Returned(<< >>, "tfidf", {})
  ELSE LET docs == SelectSeq(texts, LAMBDA t : ~Blank(t))
           fitted == FitTransform(docs, vectorizer)
       IN IF docs = << >> THEN Returned(<< >>, "tfidf", {})
          ELSE IF fitted.raised
               THEN Returned(<< >>, "tfidf", {"error: Error extracting TF-IDF keywords"})
               ELSE Returned(FirstN(SortedByScore(fitted.features), top_n), "tfidf", {})

\* KeywordExtractor.extract_textrank_keywords
extract_textrank_keywords(text, top_n, textrank) ==
  IF Blank(text) THEN Returned(<< >>, "textrank", {})
  ELSE IF textrank.raised
       THEN Returned(<< >>, "textrank", {"error: Error extracting TextRank keywords"})
       ELSE Returned(textrank.keywords, "textrank", {})

\* {"keyword": kw, "score": None}
NoScore == -1

\* variant: an unknown name runs TF-IDF without saying so
extract_keywords_from_segments_silent(texts, method, top_n, vectorizer, textrank) ==
  IF method = "textrank"
  THEN LET called == extract_textrank_keywords(Join(texts), top_n, textrank)
       IN [called EXCEPT !.result =
             [i \in 1..Len(called.result) |->
                [keyword |-> called.result[i], score |-> NoScore]]]
  ELSE extract_tfidf_keywords(texts, top_n, vectorizer)

\* KeywordExtractor.extract_keywords_from_segments
extract_keywords_from_segments(texts, method, top_n, vectorizer, textrank) ==
  IF method = "tfidf" THEN extract_tfidf_keywords(texts, top_n, vectorizer)
  ELSE IF method = "textrank"
       THEN LET called == extract_textrank_keywords(Join(texts), top_n, textrank)
            IN [called EXCEPT !.result =
                  [i \in 1..Len(called.result) |->
                     [keyword |-> called.result[i], score |-> NoScore]]]
       ELSE LET called == extract_tfidf_keywords(texts, top_n, vectorizer)
            IN [called EXCEPT !.log = @ \cup {"warning: Unknown method. Using TF-IDF."}]

KeywordsInit ==
  /\ k_language \in Languages
  /\ k_texts \in KeywordTextLists
  /\ k_method \in KeywordMethods
  /\ k_top_n \in 0..MaxTopN
  /\ k_vectorizer \in VectorizerOutcomes
  /\ k_textrank \in TextrankOutcomes
  /\ k_result = << >>
  /\ k_raised = FALSE
  /\ k_algorithm = "none"
  /\ k_log = {}
  /\ k_pc = "start"

KeywordsReturn(call, called) ==
  /\ k_result' = called.result
  /\ k_raised' = called.raised
  /\ k_algorithm' = called.algorithm
  /\ k_log' = called.log
  /\ k_pc' = call
  /\ UNCHANGED <<k_language, k_texts, k_method, k_top_n, k_vectorizer, k_textrank>>
  /\ UNCHANGED <<mvars, avars, rvars, evars, ivars, tvars, cvars, yvars, wvars, svars, gvars>>

\* extractor.extract_tfidf_keywords(texts, top_n)
ExtractTfidfKeywords ==
  /\ k_pc = "start"
  /\ KeywordsReturn("extract_tfidf_keywords",
                    extract_tfidf_keywords(k_texts, k_top_n, k_vectorizer))

\* extractor.extract_textrank_keywords(" ".join(texts), top_n)
ExtractTextrankKeywords ==
  /\ k_pc = "start"
  /\ KeywordsReturn("extract_textrank_keywords",
                    extract_textrank_keywords(Join(k_texts), k_top_n, k_textrank))

\* extractor.extract_keywords_from_segments(segments, method, top_n)
ExtractKeywordsFromSegments ==
  /\ k_pc = "start"
  /\ KeywordsReturn("extract_keywords_from_segments",
                    extract_keywords_from_segments(k_texts, k_method, k_top_n,
                                                   k_vectorizer, k_textrank))

KeywordsNext ==
  \/ ExtractTfidfKeywords
  \/ ExtractTextrankKeywords
  \/ ExtractKeywordsFromSegments

\* C18: a strategy name other than 'tfidf' and 'textrank' either makes the
\* call fail, or the TF-IDF strategy runs and a warning is logged; no other
\* algorithm runs and none runs unannounced.
C18_UnknownMethodAnnounced ==
  (k_pc = "extract_keywords_from_segments" /\ k_method \notin {"tfidf", "textrank"}) =>
    \/ k_raised
    \/ /\ k_algorithm = "tfidf"
       /\ "warning: Unknown method. Using TF-IDF." \in k_log
       /\ k_result = extract_tfidf_keywords(k_texts, k_top_n, k_vectorizer).result

C18_Witness ==
  /\ k_pc = "extract_keywords_from_segments"
  /\ k_method = "rake"
  /\ ~k_raised
  /\ k_algorithm = "tfidf"
  /\ "warning: Unknown method. Using TF-IDF." \in k_log
  /\ k_result # << >>

\* C19: the TF-IDF strategy returns at most top_n keywords, each one a term
\* the vectorizer found, in descending order of weight, and keywords of
\* equal weight in lexicographic order of the term.
C19_TopNDescendingTiesByTerm ==
  (k_algorithm = "tfidf" /\ ~k_raised) =>
    /\ Len(k_result) <= k_top_n
    /\ \A i \in 1..Len(k_result) :
         \E n \in 1..Len(k_vectorizer.features) : k_vectorizer.features[n] = k_result[i]
    /\ \A i \in 1..Len(k_result) : \A j \in (i + 1)..Len(k_result) :
         \/ k_result[i].score > k_result[j].score
         \/ /\ k_result[i].score = k_result[j].score
            /\ Rank(k_result[i].keyword) < Rank(k_result[j].keyword)

\* three terms, two of them of equal weight, and only two asked for
C19_Witness ==
  /\ k_pc = "extract_tfidf_keywords"
  /\ k_top_n = 2
  /\ Len(k_vectorizer.features) = 3
  /\ Len(k_result) = 2
  /\ k_result[1].score = k_result[2].score
  /\ Rank(k_result[1].keyword) < Rank(k_result[2].keyword)

\* C20: for an empty list of utterances, and for a list whose texts are all
\* blank, each of the three calls returns the empty sequence and does not
\* raise.
C20_BlankInputGivesNoKeywords ==
  (k_pc # "start" /\ k_pc # "off" /\ AllBlank(k_texts)) =>
    /\ ~k_raised
    /\ k_result = << >>

\* a list of blank texts handed to the graph-ranked strategy, whose library
\* would have raised
C20_Witness ==
  /\ k_pc = "extract_keywords_from_segments"
  /\ k_method = "textrank"
  /\ k_texts # << >>
  /\ AllBlank(k_texts)
  /\ k_textrank.raised
  /\ ~k_raised
  /\ k_result = << >>

KeywordsIdle ==
  /\ k_language = "en"
  /\ k_texts = << >>
  /\ k_method = "tfidf"
  /\ k_top_n = 0
  /\ k_vectorizer = [raised |-> TRUE, features |-> << >>]
  /\ k_textrank = [raised |-> TRUE, keywords |-> << >>]
  /\ k_result = << >>
  /\ k_raised = FALSE
  /\ k_algorithm = "none"
  /\ k_log = {}
  /\ k_pc = "off"

(***************************************************************************)
(* Part 8: batch processing from the console                               *)
(* (InteractiveConsole.batch_process, src/src/console.py).                 *)
(***************************************************************************)

MaxFiles == 3

video_extensions == {".mp4", ".avi"}
audio_extensions == {".wav", ".mp3"}

\* all_files: the files the globs found, each a distinct path
BatchFileLists ==
  UNION {[1..n -> video_extensions \cup audio_extensions] : n \in 0..MaxFiles}

\* batch_process is entered with the directory's files still to be listed
BatchInit ==
  /\ c_files \in BatchFileLists
  /\ c_idx = 0
  /\ c_successful = 0
  /\ c_failed = 0
  /\ c_attempted = << >>
  /\ c_history = << >>
  /\ c_pc = "start"

\* from the directory prompt to the loop: the early returns (directory missing,
\* no file found, the user declines, _ensure_pipeline fails), else the counters
BatchStart ==
  /\ c_pc = "start"
  /\ \E dir_exists \in BOOLEAN, confirmed \in BOOLEAN, pipeline_ready \in BOOLEAN :
       IF dir_exists /\ c_files # << >> /\ confirmed /\ pipeline_ready
       THEN c_pc' = "loop" /\ c_idx' = 1
       ELSE c_pc' = "returned" /\ c_idx' = c_idx
  /\ c_successful' = 0
  /\ c_failed' = 0
  /\ UNCHANGED <<c_files, c_attempted, c_history>>
  /\ UNCHANGED <<mvars, avars, rvars, evars, ivars, tvars, kvars, yvars, wvars, svars, gvars>>

HistoryEntry(idx, file_suffix, status) ==
  [type |-> IF file_suffix \in video_extensions THEN "video" ELSE "audio",
   file |-> idx,
   status |-> status,
   batch |-> TRUE]

\* mutant: no try/except around the pipeline call, a failure ends the loop
BatchProcessFile_abort_on_failure ==
  /\ c_pc = "loop"
  /\ c_idx <= Len(c_files)
  /\ c_attempted' = Append(c_attempted, c_idx)
  /\ \/ /\ c_successful' = c_successful + 1
        /\ c_history' = Append(c_history, HistoryEntry(c_idx, c_files[c_idx], "completed"))
        /\ c_idx' = c_idx + 1
        /\ UNCHANGED <<c_failed, c_pc>>
     \/ /\ c_pc' = "done"
        /\ UNCHANGED <<c_successful, c_failed, c_history, c_idx>>
  /\ UNCHANGED c_files
  /\ UNCHANGED <<mvars, avars, rvars, evars, ivars, tvars, kvars, yvars, wvars, svars, gvars>>

\* one iteration of `for idx, file_path in enumerate(all_files, 1)`: the
\* pipeline call returns or raises; the console's pipeline is a collaborator
\* here, whichever way its call ends
BatchProcessFile ==
  /\ c_pc = "loop"
  /\ c_idx <= Len(c_files)
  /\ c_attempted' = Append(c_attempted, c_idx)
  /\ \/ /\ c_successful' = c_successful + 1
        /\ c_history' = Append(c_history, HistoryEntry(c_idx, c_files[c_idx], "completed"))
        /\ UNCHANGED c_failed
     \/ /\ c_failed' = c_failed + 1
        /\ c_history' = Append(c_history, HistoryEntry(c_idx, c_files[c_idx], "failed"))
        /\ UNCHANGED c_successful
  /\ c_idx' = c_idx + 1
  /\ UNCHANGED <<c_files, c_pc>>
  /\ UNCHANGED <<mvars, avars, rvars, evars, ivars, tvars, kvars, yvars, wvars, svars, gvars>>

\* the loop is over: the summary is printed
BatchSummary ==
  /\ c_pc = "loop"
  /\ c_idx > Len(c_files)
  /\ c_pc' = "done"
  /\ UNCHANGED <<c_files, c_idx, c_successful, c_failed, c_attempted, c_history>>
  /\ UNCHANGED <<mvars, avars, rvars, evars, ivars, tvars, kvars, yvars, wvars, svars, gvars>>

BatchNext ==
  \/ BatchStart
  \/ BatchProcessFile
  \/ BatchSummary

\* C14: in a batch every file found is attempted once, in list order, whatever
\* happened to the files before it; at the summary successful + failed is the
\* number of files.
C14_BatchAttemptsEveryFile ==
  /\ c_attempted = [i \in 1..Len(c_attempted) |-> i]
  /\ Len(c_attempted) <= Len(c_files)
  /\ c_pc = "loop" => Len(c_attempted) = c_idx - 1
  /\ c_pc \in {"loop", "done"} => c_successful + c_failed = Len(c_attempted)
  /\ c_pc = "done" =>
       /\ Len(c_attempted) = Len(c_files)
       /\ c_successful + c_failed = Len(c_files)

\* C14 witness: a batch of three files is over, its first file failed and the
\* two files after it were attempted
C14_Witness ==
  /\ c_pc = "done"
  /\ Len(c_files) = 3
  /\ c_history[1].status = "failed"
  /\ Len(c_attempted) = 3
  /\ c_failed >= 1

BatchIdle ==
  /\ c_files = << >>
  /\ c_idx = 0
  /\ c_successful = 0
  /\ c_failed = 0
  /\ c_attempted = << >>
  /\ c_history = << >>
  /\ c_pc = "off"

(***************************************************************************)
(* Part 11: the entity analyzer (src/src/automotive_typology.py):          *)
(* AutomotiveTypologyAnalyzer.analyze_text on one text, analyze_segments   *)
(* on a list of utterances, and is_automotive_related.                     *)
(***************************************************************************)

\* VEHICLE_TYPES, listed in the order sorted() gives its keys
VEHICLE_TYPES ==
  <<
    [key |-> "convertible",
     keywords |-> <<<<"c", "o", "n", "v", "e", "r", "t", "i", "b", "l", "e">>,
                  <<"c", "a", "b", "r", "i", "o", "l", "e", "t">>,
                  <<"U+043A", "U+0430", "U+0431", "U+0440", "U+0438", "U+043E", "U+043B", "U+0435", "U+0442">>,
                  <<"U+655E", "U+7BF7", "U+8F66">>>>],
    [key |-> "coupe",
     keywords |-> <<<<"c", "o", "u", "p", "e">>,
                  <<"U+043A", "U+0443", "U+043F", "U+0435">>,
                  <<"U+53CC", "U+95E8", "U+8F7F", "U+8F66">>>>],
    [key |-> "electric",
     keywords |-> <<<<"e", "l", "e", "c", "t", "r", "i", "c", " ", "c", "a", "r">>,
                  <<"E", "V">>,
                  <<"U+044D", "U+043B", "U+0435", "U+043A", "U+0442", "U+0440", "U+043E", "U+043C", "U+043E", "U+0431", "U+0438", "U+043B", "U+044C">>,
                  <<"U+7535", "U+52A8", "U+8F66">>>>],
    [key |-> "hatchback",
     keywords |-> <<<<"h", "a", "t", "c", "h", "b", "a", "c", "k">>,
                  <<"U+0445", "U+044D", "U+0442", "U+0447", "U+0431", "U+0435", "U+043A">>,
                  <<"U+6380", "U+80CC", "U+8F66">>>>],
    [key |-> "hybrid",
     keywords |-> <<<<"h", "y", "b", "r", "i", "d">>,
                  <<"U+0433", "U+0438", "U+0431", "U+0440", "U+0438", "U+0434">>,
                  <<"U+6DF7", "U+5408", "U+52A8", "U+529B", "U+8F66">>>>],
    [key |-> "motorcycle",
     keywords |-> <<<<"m", "o", "t", "o", "r", "c", "y", "c", "l", "e">>,
                  <<"U+043C", "U+043E", "U+0442", "U+043E", "U+0446", "U+0438", "U+043A", "U+043B">>,
                  <<"b", "i", "k", "e">>,
                  <<"U+6469", "U+6258", "U+8F66">>>>],
    [key |-> "sedan",
     keywords |-> <<<<"s", "e", "d", "a", "n">>,
                  <<"U+0441", "U+0435", "U+0434", "U+0430", "U+043D">>,
                  <<"U+8F7F", "U+8F66">>>>],
    [key |-> "sports_car",
     keywords |-> <<<<"s", "p", "o", "r", "t", "s", " ", "c", "a", "r">>,
                  <<"U+0441", "U+043F", "U+043E", "U+0440", "U+0442", "U+0438", "U+0432", "U+043D", "U+044B", "U+0439", " ", "U+0430", "U+0432", "U+0442", "U+043E", "U+043C", "U+043E", "U+0431", "U+0438", "U+043B", "U+044C">>,
                  <<"U+0441", "U+043F", "U+043E", "U+0440", "U+0442", "U+043A", "U+0430", "U+0440">>,
                  <<"U+8DD1", "U+8F66">>>>],
    [key |-> "suv",
     keywords |-> <<<<"s", "u", "v">>,
                  <<"U+0432", "U+043D", "U+0435", "U+0434", "U+043E", "U+0440", "U+043E", "U+0436", "U+043D", "U+0438", "U+043A">>,
                  <<"U+043A", "U+0440", "U+043E", "U+0441", "U+0441", "U+043E", "U+0432", "U+0435", "U+0440">>,
                  <<"c", "r", "o", "s", "s", "o", "v", "e", "r">>,
                  <<"S", "U", "V">>,
                  <<"U+8D8A", "U+91CE", "U+8F66">>>>],
    [key |-> "truck",
     keywords |-> <<<<"t", "r", "u", "c", "k">>,
                  <<"p", "i", "c", "k", "u", "p">>,
                  <<"U+0433", "U+0440", "U+0443", "U+0437", "U+043E", "U+0432", "U+0438", "U+043A">>,
                  <<"U+043F", "U+0438", "U+043A", "U+0430", "U+043F">>,
                  <<"U+5361", "U+8F66">>,
                  <<"U+76AE", "U+5361">>>>],
    [key |-> "van",
     keywords |-> <<<<"v", "a", "n">>,
                  <<"m", "i", "n", "i", "v", "a", "n">>,
                  <<"U+0444", "U+0443", "U+0440", "U+0433", "U+043E", "U+043D">>,
                  <<"U+043C", "U+0438", "U+043D", "U+0438", "U+0432", "U+044D", "U+043D">>,
                  <<"U+9762", "U+5305", "U+8F66">>,
                  <<"U+8D27", "U+8F66">>>>],
    [key |-> "wagon",
     keywords |-> <<<<"w", "a", "g", "o", "n">>,
                  <<"e", "s", "t", "a", "t", "e">>,
                  <<"U+0443", "U+043D", "U+0438", "U+0432", "U+0435", "U+0440", "U+0441", "U+0430", "U+043B">>,
                  <<"s", "t", "a", "t", "i", "o", "n", " ", "w", "a", "g", "o", "n">>,
                  <<"U+65C5", "U+884C", "U+8F66">>>>]
  >>

\* MANUFACTURERS, listed in the order sorted() gives its members
MANUFACTURERS ==
  <<
    <<"a", "c", "u", "r", "a">>,
    <<"a", "l", "f", "a", " ", "r", "o", "m", "e", "o">>,
    <<"a", "s", "t", "o", "n", " ", "m", "a", "r", "t", "i", "n">>,
    <<"a", "u", "d", "i">>,
    <<"b", "e", "n", "t", "l", "e", "y">>,
    <<"b", "m", "w">>,
    <<"b", "y", "d">>,
    <<"c", "a", "d", "i", "l", "l", "a", "c">>,
    <<"c", "h", "e", "v", "r", "o", "l", "e", "t">>,
    <<"c", "h", "e", "v", "y">>,
    <<"c", "h", "r", "y", "s", "l", "e", "r">>,
    <<"c", "i", "t", "r", "o", "e", "n">>,
    <<"c", "i", "t", "r", "o", "U+00EB", "n">>,
    <<"d", "o", "d", "g", "e">>,
    <<"f", "e", "r", "r", "a", "r", "i">>,
    <<"f", "i", "a", "t">>,
    <<"f", "o", "r", "d">>,
    <<"g", "a", "z">>,
    <<"g", "e", "e", "l", "y">>,
    <<"g", "e", "n", "e", "s", "i", "s">>,
    <<"g", "m", "c">>,
    <<"g", "r", "e", "a", "t", " ", "w", "a", "l", "l">>,
    <<"h", "o", "n", "d", "a">>,
    <<"h", "y", "u", "n", "d", "a", "i">>,
    <<"i", "n", "f", "i", "n", "i", "t", "i">>,
    <<"j", "a", "g", "u", "a", "r">>,
    <<"j", "e", "e", "p">>,
    <<"k", "a", "m", "a", "z">>,
    <<"k", "i", "a">>,
    <<"l", "a", "d", "a">>,
    <<"l", "a", "m", "b", "o", "r", "g", "h", "i", "n", "i">>,
    <<"l", "a", "n", "d", " ", "r", "o", "v", "e", "r">>,
    <<"l", "e", "x", "u", "s">>,
    <<"l", "i", " ", "a", "u", "t", "o">>,
    <<"m", "a", "s", "e", "r", "a", "t", "i">>,
    <<"m", "a", "z", "d", "a">>,
    <<"m", "e", "r", "c", "e", "d", "e", "s">>,
    <<"m", "e", "r", "c", "e", "d", "e", "s", "-", "b", "e", "n", "z">>,
    <<"m", "i", "n", "i">>,
    <<"m", "i", "t", "s", "u", "b", "i", "s", "h", "i">>,
    <<"n", "i", "o">>,
    <<"n", "i", "s", "s", "a", "n">>,
    <<"o", "p", "e", "l">>,
    <<"p", "e", "u", "g", "e", "o", "t">>,
    <<"p", "o", "r", "s", "c", "h", "e">>,
    <<"r", "a", "m">>,
    <<"r", "e", "n", "a", "u", "l", "t">>,
    <<"r", "o", "l", "l", "s", "-", "r", "o", "y", "c", "e">>,
    <<"s", "a", "a", "b">>,
    <<"s", "k", "o", "d", "a">>,
    <<"s", "u", "b", "a", "r", "u">>,
    <<"s", "u", "z", "u", "k", "i">>,
    <<"t", "e", "s", "l", "a">>,
    <<"t", "o", "y", "o", "t", "a">>,
    <<"u", "a", "z">>,
    <<"v", "a", "z">>,
    <<"v", "o", "l", "k", "s", "w", "a", "g", "e", "n">>,
    <<"v", "o", "l", "v", "o">>,
    <<"v", "w">>,
    <<"x", "p", "e", "n", "g">>,
    <<"U+0161", "k", "o", "d", "a">>,
    <<"U+0432", "U+0430", "U+0437">>,
    <<"U+0433", "U+0430", "U+0437">>,
    <<"U+043A", "U+0430", "U+043C", "U+0430", "U+0437">>,
    <<"U+043B", "U+0430", "U+0434", "U+0430">>,
    <<"U+0443", "U+0430", "U+0437">>
  >>

\* MODELS, listed in the order sorted() gives its members
MODELS ==
  <<
    <<"3", " ", "s", "e", "r", "i", "e", "s">>,
    <<"5", " ", "s", "e", "r", "i", "e", "s">>,
    <<"7", " ", "s", "e", "r", "i", "e", "s">>,
    <<"a", "c", "c", "o", "r", "d">>,
    <<"c", "-", "c", "l", "a", "s", "s">>,
    <<"c", "a", "m", "r", "y">>,
    <<"c", "i", "v", "i", "c">>,
    <<"c", "o", "r", "o", "l", "l", "a">>,
    <<"c", "r", "-", "v">>,
    <<"c", "y", "b", "e", "r", "t", "r", "u", "c", "k">>,
    <<"e", "-", "c", "l", "a", "s", "s">>,
    <<"e", "s", "c", "a", "p", "e">>,
    <<"e", "x", "p", "l", "o", "r", "e", "r">>,
    <<"f", "-", "1", "5", "0">>,
    <<"f", "i", "t">>,
    <<"f", "o", "c", "u", "s">>,
    <<"f", "u", "s", "i", "o", "n">>,
    <<"g", "l", "a">>,
    <<"g", "l", "c">>,
    <<"g", "l", "e">>,
    <<"g", "r", "a", "n", "t", "a">>,
    <<"h", "i", "g", "h", "l", "a", "n", "d", "e", "r">>,
    <<"k", "a", "l", "i", "n", "a">>,
    <<"l", "a", "n", "d", " ", "c", "r", "u", "i", "s", "e", "r">>,
    <<"m", "o", "d", "e", "l", " ", "3">>,
    <<"m", "o", "d", "e", "l", " ", "s">>,
    <<"m", "o", "d", "e", "l", " ", "x">>,
    <<"m", "o", "d", "e", "l", " ", "y">>,
    <<"m", "u", "s", "t", "a", "n", "g">>,
    <<"n", "i", "v", "a">>,
    <<"o", "d", "y", "s", "s", "e", "y">>,
    <<"p", "i", "l", "o", "t">>,
    <<"p", "r", "i", "o", "r", "a">>,
    <<"p", "r", "i", "u", "s">>,
    <<"r", "a", "v", "4">>,
    <<"s", "-", "c", "l", "a", "s", "s">>,
    <<"t", "a", "c", "o", "m", "a">>,
    <<"t", "u", "n", "d", "r", "a">>,
    <<"v", "e", "s", "t", "a">>,
    <<"x", "3">>,
    <<"x", "5">>,
    <<"x", "7">>,
    <<"U+0432", "U+0435", "U+0441", "U+0442", "U+0430">>,
    <<"U+0433", "U+0440", "U+0430", "U+043D", "U+0442", "U+0430">>,
    <<"U+043A", "U+0430", "U+043B", "U+0438", "U+043D", "U+0430">>,
    <<"U+043D", "U+0438", "U+0432", "U+0430">>,
    <<"U+043F", "U+0440", "U+0438", "U+043E", "U+0440", "U+0430">>
  >>

\* SYSTEMS, listed in the order sorted() gives its keys
SYSTEMS ==
  <<
    [key |-> "battery",
     keywords |-> <<<<"b", "a", "t", "t", "e", "r", "y">>,
                  <<"U+0430", "U+043A", "U+043A", "U+0443", "U+043C", "U+0443", "U+043B", "U+044F", "U+0442", "U+043E", "U+0440">>,
                  <<"U+7535", "U+6C60">>>>],
    [key |-> "brakes",
     keywords |-> <<<<"b", "r", "a", "k", "e", "s">>,
                  <<"U+0442", "U+043E", "U+0440", "U+043C", "U+043E", "U+0437", "U+0430">>,
                  <<"U+5239", "U+8F66">>>>],
    [key |-> "cooling",
     keywords |-> <<<<"c", "o", "o", "l", "i", "n", "g", " ", "s", "y", "s", "t", "e", "m">>,
                  <<"r", "a", "d", "i", "a", "t", "o", "r">>,
                  <<"U+0440", "U+0430", "U+0434", "U+0438", "U+0430", "U+0442", "U+043E", "U+0440">>,
                  <<"U+043E", "U+0445", "U+043B", "U+0430", "U+0436", "U+0434", "U+0435", "U+043D", "U+0438", "U+0435">>,
                  <<"U+51B7", "U+5374", "U+7CFB", "U+7EDF">>>>],
    [key |-> "electrical",
     keywords |-> <<<<"e", "l", "e", "c", "t", "r", "i", "c", "a", "l", " ", "s", "y", "s", "t", "e", "m">>,
                  <<"U+044D", "U+043B", "U+0435", "U+043A", "U+0442", "U+0440", "U+0438", "U+043A", "U+0430">>,
                  <<"U+7535", "U+6C14", "U+7CFB", "U+7EDF">>>>],
    [key |-> "engine",
     keywords |-> <<<<"e", "n", "g", "i", "n", "e">>,
                  <<"m", "o", "t", "o", "r">>,
                  <<"U+0434", "U+0432", "U+0438", "U+0433", "U+0430", "U+0442", "U+0435", "U+043B", "U+044C">>,
                  <<"U+043C", "U+043E", "U+0442", "U+043E", "U+0440">>,
                  <<"U+53D1", "U+52A8", "U+673A">>>>],
    [key |-> "exhaust",
     keywords |-> <<<<"e", "x", "h", "a", "u", "s", "t">>,
                  <<"U+0432", "U+044B", "U+0445", "U+043B", "U+043E", "U+043F">>,
                  <<"U+0432", "U+044B", "U+0445", "U+043B", "U+043E", "U+043F", "U+043D", "U+0430", "U+044F", " ", "U+0441", "U+0438", "U+0441", "U+0442", "U+0435", "U+043C", "U+0430">>,
                  <<"U+6392", "U+6C14">>>>],
    [key |-> "fuel_system",
     keywords |-> <<<<"f", "u", "e", "l", " ", "s", "y", "s", "t", "e", "m">>,
                  <<"U+0442", "U+043E", "U+043F", "U+043B", "U+0438", "U+0432", "U+043D", "U+0430", "U+044F", " ", "U+0441", "U+0438", "U+0441", "U+0442", "U+0435", "U+043C", "U+0430">>,
                  <<"U+71C3", "U+6CB9", "U+7CFB", "U+7EDF">>>>],
    [key |-> "steering",
     keywords |-> <<<<"s", "t", "e", "e", "r", "i", "n", "g">>,
                  <<"U+0440", "U+0443", "U+043B", "U+0435", "U+0432", "U+043E", "U+0435", " ", "U+0443", "U+043F", "U+0440", "U+0430", "U+0432", "U+043B", "U+0435", "U+043D", "U+0438", "U+0435">>,
                  <<"U+8F6C", "U+5411">>>>],
    [key |-> "suspension",
     keywords |-> <<<<"s", "u", "s", "p", "e", "n", "s", "i", "o", "n">>,
                  <<"U+043F", "U+043E", "U+0434", "U+0432", "U+0435", "U+0441", "U+043A", "U+0430">>,
                  <<"U+60AC", "U+6302">>>>],
    [key |-> "transmission",
     keywords |-> <<<<"t", "r", "a", "n", "s", "m", "i", "s", "s", "i", "o", "n">>,
                  <<"g", "e", "a", "r", "b", "o", "x">>,
                  <<"U+043A", "U+043E", "U+0440", "U+043E", "U+0431", "U+043A", "U+0430", " ", "U+043F", "U+0435", "U+0440", "U+0435", "U+0434", "U+0430", "U+0447">>,
                  <<"U+0442", "U+0440", "U+0430", "U+043D", "U+0441", "U+043C", "U+0438", "U+0441", "U+0441", "U+0438", "U+044F">>,
                  <<"U+53D8", "U+901F", "U+7BB1">>>>]
  >>

\* DIAGNOSTIC_TERMS, listed in the order sorted() gives its keys
DIAGNOSTIC_TERMS ==
  <<
    [key |-> "leak",
     keywords |-> <<<<"l", "e", "a", "k">>,
                  <<"U+0443", "U+0442", "U+0435", "U+0447", "U+043A", "U+0430">>,
                  <<"U+0442", "U+0435", "U+0447", "U+044C">>,
                  <<"U+6CC4", "U+6F0F">>>>],
    [key |-> "maintenance",
     keywords |-> <<<<"m", "a", "i", "n", "t", "e", "n", "a", "n", "c", "e">>,
                  <<"U+043E", "U+0431", "U+0441", "U+043B", "U+0443", "U+0436", "U+0438", "U+0432", "U+0430", "U+043D", "U+0438", "U+0435">>,
                  <<"s", "e", "r", "v", "i", "c", "e">>,
                  <<"U+4FDD", "U+517B">>>>],
    [key |-> "malfunction",
     keywords |-> <<<<"m", "a", "l", "f", "u", "n", "c", "t", "i", "o", "n">>,
                  <<"U+043D", "U+0435", "U+0438", "U+0441", "U+043F", "U+0440", "U+0430", "U+0432", "U+043D", "U+043E", "U+0441", "U+0442", "U+044C">>,
                  <<"f", "a", "i", "l", "u", "r", "e">>,
                  <<"U+043E", "U+0442", "U+043A", "U+0430", "U+0437">>,
                  <<"U+6545", "U+969C">>>>],
    [key |-> "noise",
     keywords |-> <<<<"n", "o", "i", "s", "e">>,
                  <<"U+0448", "U+0443", "U+043C">>,
                  <<"U+0437", "U+0432", "U+0443", "U+043A">>,
                  <<"U+566A", "U+97F3">>>>],
    [key |-> "oil_change",
     keywords |-> <<<<"o", "i", "l", " ", "c", "h", "a", "n", "g", "e">>,
                  <<"U+0437", "U+0430", "U+043C", "U+0435", "U+043D", "U+0430", " ", "U+043C", "U+0430", "U+0441", "U+043B", "U+0430">>,
                  <<"U+6362", "U+6CB9">>>>],
    [key |-> "overheating",
     keywords |-> <<<<"o", "v", "e", "r", "h", "e", "a", "t", "i", "n", "g">>,
                  <<"U+043F", "U+0435", "U+0440", "U+0435", "U+0433", "U+0440", "U+0435", "U+0432">>,
                  <<"U+8FC7", "U+70ED">>>>],
    [key |-> "repair",
     keywords |-> <<<<"r", "e", "p", "a", "i", "r">>,
                  <<"U+0440", "U+0435", "U+043C", "U+043E", "U+043D", "U+0442">>,
                  <<"f", "i", "x">>,
                  <<"U+4FEE", "U+7406">>>>],
    [key |-> "vibration",
     keywords |-> <<<<"v", "i", "b", "r", "a", "t", "i", "o", "n">>,
                  <<"U+0432", "U+0438", "U+0431", "U+0440", "U+0430", "U+0446", "U+0438", "U+044F">>,
                  <<"U+0442", "U+0440", "U+044F", "U+0441", "U+043A", "U+0430">>,
                  <<"U+632F", "U+52A8">>>>],
    [key |-> "warning_light",
     keywords |-> <<<<"w", "a", "r", "n", "i", "n", "g", " ", "l", "i", "g", "h", "t">>,
                  <<"c", "h", "e", "c", "k", " ", "e", "n", "g", "i", "n", "e">>,
                  <<"U+043A", "U+043E", "U+043D", "U+0442", "U+0440", "U+043E", "U+043B", "U+044C", "U+043D", "U+0430", "U+044F", " ", "U+043B", "U+0430", "U+043C", "U+043F", "U+0430">>,
                  <<"U+0438", "U+043D", "U+0434", "U+0438", "U+043A", "U+0430", "U+0442", "U+043E", "U+0440">>,
                  <<"U+8B66", "U+544A", "U+706F">>>>]
  >>

\* the longest list of utterances handed to analyze_segments
MaxSegments == 4

\* sub in s (str.__contains__)
Contains(s, sub) ==
  \E i \in 1..(Len(s) - Len(sub) + 1) : SubSeq(s, i, i + Len(sub) - 1) = sub

\* re.compile(r'\b' + re.escape(phrase) + r'\b', re.IGNORECASE).search(text)
SearchWord(text, phrase) ==
  \E i \in 1..Len(text) : PhraseMatchesAt(text, i, phrase)

Keys(entries) == [i \in 1..Len(entries) |-> entries[i].key]

\* the loop shared by _detect_vehicle_types, _detect_systems and
\* _detect_diagnostic_terms: keyword.lower() in text_lower, then
\* sorted(list(detected))
DetectByKeyword(table, text) ==
  LET text_lower == LowerText(text)
  IN Keys(SelectSeq(table, LAMBDA entry :
            \E k \in 1..Len(entry.keywords) :
              Contains(text_lower, LowerText(entry.keywords[k]))))

detect_vehicle_types(text) == DetectByKeyword(VEHICLE_TYPES, text)

detect_systems(text) == DetectByKeyword(SYSTEMS, text)

detect_diagnostic_terms(text) == DetectByKeyword(DIAGNOSTIC_TERMS, text)

\* 'лада', 'ваз': the first three characters anywhere in the text
StemManufacturers ==
  {<<"U+043B", "U+0430", "U+0434", "U+0430">>, <<"U+0432", "U+0430", "U+0437">>}

\* 'газ', 'уаз': the name anywhere in the text
SubstringManufacturers ==
  {<<"U+0433", "U+0430", "U+0437">>, <<"U+0443", "U+0430", "U+0437">>}

\* 'веста', 'гранта', 'нива', 'калина', 'приора': the first four characters
\* anywhere in the text
StemModels ==
  {<<"U+0432", "U+0435", "U+0441", "U+0442", "U+0430">>,
   <<"U+0433", "U+0440", "U+0430", "U+043D", "U+0442", "U+0430">>,
   <<"U+043D", "U+0438", "U+0432", "U+0430">>,
   <<"U+043A", "U+0430", "U+043B", "U+0438", "U+043D", "U+0430">>,
   <<"U+043F", "U+0440", "U+0438", "U+043E", "U+0440", "U+0430">>}

ManufacturerFallback(manufacturer, text_lower) ==
  \/ manufacturer \in StemManufacturers
       /\ Contains(text_lower, SubSeq(manufacturer, 1, 3))
  \/ manufacturer \in SubstringManufacturers /\ Contains(text_lower, manufacturer)

ModelFallback(model, text_lower) ==
  model \in StemModels /\ Len(model) >= 4 /\ Contains(text_lower, SubSeq(model, 1, 4))

\* AutomotiveTypologyAnalyzer._detect_manufacturers
detect_manufacturers(text) ==
  LET text_lower == LowerText(text)
  IN SelectSeq(MANUFACTURERS, LAMBDA manufacturer :
       SearchWord(text, manufacturer) \/ ManufacturerFallback(manufacturer, text_lower))

\* AutomotiveTypologyAnalyzer._detect_models
detect_models(text) ==
  LET text_lower == LowerText(text)
  IN SelectSeq(MODELS, LAMBDA model :
       SearchWord(text, model) \/ ModelFallback(model, text_lower))

Categories == <<"vehicle_types", "manufacturers", "models", "systems", "diagnostic_terms">>

\* AutomotiveTypologyAnalyzer._empty_result
empty_result ==
  [vehicle_types |-> << >>, manufacturers |-> << >>, models |-> << >>,
   systems |-> << >>, diagnostic_terms |-> << >>, total_automotive_mentions |-> 0]

\* AutomotiveTypologyAnalyzer.analyze_text
analyze_text(text) ==
  IF text = << >> THEN empty_result
  ELSE LET vehicle_types == detect_vehicle_types(text)
           manufacturers == detect_manufacturers(text)
           models == detect_models(text)
           systems == detect_systems(text)
           diagnostic_terms == detect_diagnostic_terms(text)
       IN [vehicle_types |-> vehicle_types,
           manufacturers |-> manufacturers,
           models |-> models,
           systems |-> systems,
           diagnostic_terms |-> diagnostic_terms,
           total_automotive_mentions |->
             Len(vehicle_types) + Len(manufacturers) + Len(models)
               + Len(systems) + Len(diagnostic_terms)]

\* "Ford Ford": one brand, mentioned twice
TextBrandTwice == <<"F", "o", "r", "d", " ", "F", "o", "r", "d">>

\* "my ford engine": a brand and a system
TextBrandAndSystem ==
  <<"m", "y", " ", "f", "o", "r", "d", " ", "e", "n", "g", "i", "n", "e">>

\* "never advance": 'ev' and 'van' occur, but only inside longer words
TextInsideWords ==
  <<"n", "e", "v", "e", "r", " ", "a", "d", "v", "a", "n", "c", "e">>

\* "hello": no trigger at all
TextPlain == <<"h", "e", "l", "l", "o">>

\* an inflected form of a curated Cyrillic brand name (stem fallback)
TextInflected == <<"U+041B", "U+0430", "U+0434", "U+0443">>

TypologyTexts ==
  {TextBrandTwice, TextBrandAndSystem, TextInsideWords, TextPlain, TextInflected, << >>}

\* analyze_text on the sample texts, evaluated once
AnalysisOfTexts == [text \in TypologyTexts |-> analyze_text(text)]

\* self.analyze_text(text)
AnalyzeText(text) ==
  IF text \in DOMAIN AnalysisOfTexts THEN AnalysisOfTexts[text] ELSE analyze_text(text)

\* AutomotiveTypologyAnalyzer.is_automotive_related (threshold = 1)
is_automotive_related(text) == AnalyzeText(text).total_automotive_mentions >= 1

\* aggregated[category][key] += 1 on a defaultdict(int): the entries keep the
\* order in which their keys were first seen
RECURSIVE Bump(_, _)
Bump(aggregated, key) ==
  IF aggregated = << >> THEN <<[key |-> key, count |-> 1]>>
  ELSE IF Head(aggregated).key = key
       THEN <<[key |-> key, count |-> Head(aggregated).count + 1]>> \o Tail(aggregated)
       ELSE <<Head(aggregated)>> \o Bump(Tail(aggregated), key)

RECURSIVE BumpAll(_, _)
BumpAll(aggregated, keys) ==
  IF keys = << >> THEN aggregated
  ELSE BumpAll(Bump(aggregated, Head(keys)), Tail(keys))

\* the loop over the segments, for one category
RECURSIVE AggregateFrom(_, _, _)
AggregateFrom(detections, i, aggregated) ==
  IF i > Len(detections) THEN aggregated
  ELSE AggregateFrom(detections, i + 1, BumpAll(aggregated, detections[i]))

\* sorted(..., key=lambda x: x['count'], reverse=True): stable
RECURSIVE InsertByCount(_, _)
InsertByCount(sorted, item) ==
  IF sorted = << >> THEN <<item>>
  ELSE IF Head(sorted).count >= item.count
       THEN <<Head(sorted)>> \o InsertByCount(Tail(sorted), item)
       ELSE <<item>> \o sorted

RECURSIVE SortedByCountFrom(_, _)
SortedByCountFrom(items, sorted) ==
  IF items = << >> THEN sorted
  ELSE SortedByCountFrom(Tail(items), InsertByCount(sorted, Head(items)))

SummaryList(detections) ==
  SortedByCountFrom(AggregateFrom(detections, 1, << >>), << >>)

\* the per-segment analysis stored in 'segments' (speaker, start and end of
\* the segment are copied into it unchanged)
SegmentAnalysis(index, analysis) ==
  [segment_index |-> index,
   automotive_mentions |-> analysis.total_automotive_mentions,
   detected_entities |->
     [vehicle_types |-> analysis.vehicle_types,
      manufacturers |-> analysis.manufacturers,
      models |-> analysis.models,
      systems |-> analysis.systems,
      diagnostic_terms |-> analysis.diagnostic_terms]]

\* the number of times the word pattern of the phrase matches in the text
CountWord(text, phrase) ==
  Cardinality({i \in 1..Len(text) : PhraseMatchesAt(text, i, phrase)})

RECURSIVE Repeat(_, _)
Repeat(key, n) == IF n <= 0 THEN << >> ELSE <<key>> \o Repeat(key, n - 1)

RECURSIVE Flatten(_)
Flatten(seqs) == IF seqs = << >> THEN << >> ELSE Head(seqs) \o Flatten(Tail(seqs))

\* variant: a manufacturer is counted once per mention, not once per segment
analyze_segments_counting_mentions(segments) ==
  LET analyses == [i \in 1..Len(segments) |-> AnalyzeText(segments[i].text)]
      Detected(category) == [i \in 1..Len(segments) |-> analyses[i][category]]
      Mentions ==
        [i \in 1..Len(segments) |->
           Flatten([n \in 1..Len(analyses[i].manufacturers) |->
                      Repeat(analyses[i].manufacturers[n],
                             IF CountWord(segments[i].text, analyses[i].manufacturers[n]) > 0
                             THEN CountWord(segments[i].text, analyses[i].manufacturers[n])
                             ELSE 1)])]
      segment_analyses ==
        [i \in 1..Len(segments) |-> SegmentAnalysis(i - 1, analyses[i])]
  IN [summary |->
        [vehicle_types |-> SummaryList(Detected("vehicle_types")),
         manufacturers |-> SummaryList(Mentions),
         models |-> SummaryList(Detected("models")),
         systems |-> SummaryList(Detected("systems")),
         diagnostic_terms |-> SummaryList(Detected("diagnostic_terms")),
         total_automotive_segments |->
           Cardinality({i \in 1..Len(segments) :
                          segment_analyses[i].automotive_mentions > 0}),
         total_segments |-> Len(segments)],
      segments |-> segment_analyses]

\* AutomotiveTypologyAnalyzer.analyze_segments
analyze_segments(segments) ==
  LET analyses == [i \in 1..Len(segments) |-> AnalyzeText(segments[i].text)]
      Detected(category) == [i \in 1..Len(segments) |-> analyses[i][category]]
      segment_analyses ==
        [i \in 1..Len(segments) |-> SegmentAnalysis(i - 1, analyses[i])]
  IN [summary |->
        [vehicle_types |-> SummaryList(Detected("vehicle_types")),
         manufacturers |-> SummaryList(Detected("manufacturers")),
         models |-> SummaryList(Detected("models")),
         systems |-> SummaryList(Detected("systems")),
         diagnostic_terms |-> SummaryList(Detected("diagnostic_terms")),
         total_automotive_segments |->
           Cardinality({i \in 1..Len(segments) :
                          segment_analyses[i].automotive_mentions > 0}),
         total_segments |-> Len(segments)],
      segments |-> segment_analyses]

NoAnalysis == [present |-> FALSE]

TypologyInit ==
  /\ y_segments \in UNION {[1..n -> [text : TypologyTexts]] : n \in 0..MaxSegments}
  /\ y_result = NoAnalysis
  /\ y_index = 0
  /\ y_analysis = NoAnalysis
  /\ y_related = FALSE
  /\ y_pc = "start"

\* result = analyzer.analyze_segments(segments)
AnalyzeSegments ==
  /\ y_pc = "start"
  /\ y_result' = analyze_segments(y_segments)
  /\ y_pc' = "analyzed"
  /\ UNCHANGED <<y_segments, y_index, y_analysis, y_related>>
  /\ UNCHANGED <<mvars, avars, rvars, evars, ivars, tvars, kvars, cvars, wvars, svars, gvars>>

\* analyzer.analyze_text(text) and analyzer.is_automotive_related(text) on
\* the text of one of the utterances
IsAutomotiveRelated ==
  /\ y_pc = "analyzed"
  /\ \E i \in 1..Len(y_segments) :
       /\ y_index' = i
       /\ y_analysis' = AnalyzeText(y_segments[i].text)
       /\ y_related' = is_automotive_related(y_segments[i].text)
  /\ y_pc' = "related"
  /\ UNCHANGED <<y_segments, y_result>>
  /\ UNCHANGED <<mvars, avars, rvars, evars, ivars, tvars, kvars, cvars, wvars, svars, gvars>>

TypologyNext == AnalyzeSegments \/ IsAutomotiveRelated

TypologyIdle ==
  /\ y_segments = << >>
  /\ y_result = NoAnalysis
  /\ y_index = 0
  /\ y_analysis = NoAnalysis
  /\ y_related = FALSE
  /\ y_pc = "off"

Range(seq) == {seq[i] : i \in 1..Len(seq)}

\* the number of utterances in whose analysis the key was detected
SegmentsMentioning(category, key) ==
  Cardinality({i \in 1..Len(y_result.segments) :
                 key \in Range(y_result.segments[i].detected_entities[category])})

\* C21: in each category of the summary, every detected value has exactly
\* one entry, its count is the number of utterances in which the value was
\* detected (however often an utterance mentions it), and the entries are in
\* descending order of count.
C21_CountsUtterancesSortedDescending ==
  y_pc \in {"analyzed", "related"} =>
    \A c \in 1..Len(Categories) :
      LET list == y_result.summary[Categories[c]]
      IN /\ \A n \in 1..Len(list) :
              /\ list[n].count = SegmentsMentioning(Categories[c], list[n].key)
              /\ list[n].count >= 1
              /\ \A m \in 1..Len(list) : list[m].key = list[n].key => m = n
         /\ \A i \in 1..Len(y_result.segments) :
              \A key \in Range(y_result.segments[i].detected_entities[Categories[c]]) :
                \E n \in 1..Len(list) : list[n].key = key
         /\ \A n \in 1..(Len(list) - 1) : list[n].count >= list[n + 1].count

\* four utterances: three mention the brand, one of them twice, one does
\* not; the count of the brand is 3
C21_Witness ==
  /\ y_pc = "analyzed"
  /\ y_segments = <<[text |-> TextBrandTwice], [text |-> TextBrandAndSystem],
                    [text |-> TextPlain], [text |-> TextBrandAndSystem]>>
  /\ \E n \in 1..Len(y_result.summary.manufacturers) :
       y_result.summary.manufacturers[n] = [key |-> <<"f", "o", "r", "d">>, count |-> 3]

\* some trigger phrase of the entry occurs in the text as a whole word
WholeWordKeyword(table, key, text) ==
  \E e \in 1..Len(table) :
    /\ table[e].key = key
    /\ \E k \in 1..Len(table[e].keywords) : SearchWord(text, table[e].keywords[k])

\* C22: apart from the curated names with a stem fallback, a value is
\* reported only if one of its trigger phrases occurs in the text as a whole
\* word, compared case-insensitively; a text with no such occurrence has no
\* mentions and is not automotive-related.
C22_OnlyWholeWordTriggers ==
  y_pc = "related" =>
    LET text == y_segments[y_index].text
        text_lower == LowerText(text)
    IN /\ \A key \in Range(y_analysis.vehicle_types) :
            WholeWordKeyword(VEHICLE_TYPES, key, text)
       /\ \A key \in Range(y_analysis.systems) : WholeWordKeyword(SYSTEMS, key, text)
       /\ \A key \in Range(y_analysis.diagnostic_terms) :
            WholeWordKeyword(DIAGNOSTIC_TERMS, key, text)
       /\ \A m \in Range(y_analysis.manufacturers) :
            SearchWord(text, m) \/ ManufacturerFallback(m, text_lower)
       /\ \A m \in Range(y_analysis.models) :
            SearchWord(text, m) \/ ModelFallback(m, text_lower)
       /\ (y_analysis.total_automotive_mentions > 0) = y_related

(***************************************************************************)
(* Part 12: a client of the formatter that builds the report from a list   *)
(* of utterances, writes the list with save_csv and reads the file back    *)
(* with the csv module (src/src/output.py).                                *)
(***************************************************************************)

\* the longest list of utterances given to the formatter
MaxRows == 2

\* texts of utterances: a word, two words with a comma, a text with a quote
\* and a line break, and the empty text
CsvTextWord == <<"c", "a", "r">>

CsvTextComma == <<"a", ",", " ", "b">>

CsvTextQuoteNewline == <<"a", "\"", "\n", "b">>

ReportTexts == {CsvTextWord, CsvTextComma, CsvTextQuoteNewline, << >>}

\* utterances as the formatter receives them: times are floats with no
\* fraction, the speaker is a label or None
ReportSegments ==
  [start : {0}, end : {1, 2}, speaker : Speakers \cup {None}, text : ReportTexts]

ReportSegmentLists == UNION {[1..n -> ReportSegments] : n \in 0..MaxRows}

Digits == <<"0", "1", "2", "3", "4", "5", "6", "7", "8", "9">>

\* str(x) of a float with no fraction, 0.0 to 9.0
FloatString(x) == <<Digits[x + 1], ".", "0">>

LabelString(label) ==
  IF label = "SPEAKER_00" THEN <<"S", "P", "E", "A", "K", "E", "R", "_", "0", "0">>
  ELSE IF label = "SPEAKER_01" THEN <<"S", "P", "E", "A", "K", "E", "R", "_", "0", "1">>
  ELSE << >>

\* what csv.writer writes for a value: None as the empty field, a float as
\* its repr, a string as it is
CellText(value, column) ==
  IF column \in {"start", "end"} THEN FloatString(value)
  ELSE IF column = "speaker" THEN (IF value = None THEN << >> ELSE LabelString(value))
  ELSE value

\* QUOTE_MINIMAL of the excel dialect: a field with the delimiter, the quote
\* character or a line break is quoted, and its quotes are doubled
NeedsQuotes(field) ==
  \E i \in 1..Len(field) : field[i] \in {",", "\"", "\r", "\n"}

RECURSIVE DoubleQuotes(_)
DoubleQuotes(field) ==
  IF field = << >> THEN << >>
  ELSE (IF Head(field) = "\"" THEN <<"\"", "\"">> ELSE <<Head(field)>>)
         \o DoubleQuotes(Tail(field))

CsvField(field) ==
  IF NeedsQuotes(field) THEN <<"\"">> \o DoubleQuotes(field) \o <<"\"">> ELSE field

RECURSIVE CsvJoin(_)
CsvJoin(fields) ==
  IF fields = << >> THEN << >>
  ELSE IF Len(fields) = 1 THEN CsvField(fields[1])
       ELSE CsvField(fields[1]) \o <<",">> \o CsvJoin(Tail(fields))

\* writer.writerow: the fields, then the line terminator '\r\n'
CsvRecord(fields) == CsvJoin(fields) \o <<"\r", "\n">>

\* fieldnames: the keys of the segments in the preferred order
Fieldnames == <<"start", "end", "speaker", "text">>

FieldnameString(column) ==
  IF column = "start" THEN <<"s", "t", "a", "r", "t">>
  ELSE IF column = "end" THEN <<"e", "n", "d">>
  ELSE IF column = "speaker" THEN <<"s", "p", "e", "a", "k", "e", "r">>
  ELSE <<"t", "e", "x", "t">>

RECURSIVE CsvRows(_)
CsvRows(segments) ==
  IF segments = << >> THEN << >>
  ELSE CsvRecord([c \in 1..Len(Fieldnames) |->
                    CellText(Head(segments)[Fieldnames[c]], Fieldnames[c])])
         \o CsvRows(Tail(segments))

NoFile == [exists |-> FALSE, content |-> << >>]

\* OutputFormatter.save_csv on one file: nothing is opened for an empty list
WriteCsv(segments, file) ==
  IF segments = << >> THEN file
  ELSE [exists |-> TRUE,
        content |-> CsvRecord([c \in 1..Len(Fieldnames) |-> FieldnameString(Fieldnames[c])])
                      \o CsvRows(segments)]

\* csv.reader of the excel dialect: one record is read from position i of the
\* characters; the result is the record and the position behind it
RECURSIVE CsvParseRecord(_, _, _, _, _)
CsvParseRecord(s, i, state, field, row) ==
  IF i > Len(s)
  THEN [row |-> IF state = "start_record" THEN << >> ELSE Append(row, field), next |-> i]
  ELSE LET c == s[i]
           newline == c \in {"\r", "\n"}
           EndRecord == [row |-> Append(row, field), next |-> i + 1]
           EndField == CsvParseRecord(s, i + 1, "start_field", << >>, Append(row, field))
       IN CASE state = "start_record" ->
                 IF newline THEN [row |-> << >>, next |-> i + 1]
                 ELSE CsvParseRecord(s, i, "start_field", << >>, << >>)
            [] state = "start_field" ->
                 IF c = "\"" THEN CsvParseRecord(s, i + 1, "in_quoted", << >>, row)
                 ELSE IF c = "," THEN EndField
                 ELSE IF newline THEN EndRecord
                 ELSE CsvParseRecord(s, i + 1, "in_field", <<c>>, row)
            [] state = "in_field" ->
                 IF c = "," THEN EndField
                 ELSE IF newline THEN EndRecord
                 ELSE CsvParseRecord(s, i + 1, "in_field", Append(field, c), row)
            [] state = "in_quoted" ->
                 IF c = "\"" THEN CsvParseRecord(s, i + 1, "quote_in_quoted", field, row)
                 ELSE CsvParseRecord(s, i + 1, "in_quoted", Append(field, c), row)
            [] OTHER ->
                 IF c = "\"" THEN CsvParseRecord(s, i + 1, "in_quoted", Append(field, c), row)
                 ELSE IF c = "," THEN EndField
                 ELSE IF newline THEN EndRecord
                 ELSE CsvParseRecord(s, i + 1, "in_field", Append(field, c), row)

\* the records of the file; an empty record (an empty line, or the '\n' of
\* '\r\n') is skipped, as DictReader does
RECURSIVE CsvParse(_, _)
CsvParse(s, i) ==
  IF i > Len(s) THEN << >>
  ELSE LET record == CsvParseRecord(s, i, "start_record", << >>, << >>)
       IN (IF record.row = << >> THEN << >> ELSE <<record.row>>)
            \o CsvParse(s, record.next)

\* list(csv.DictReader(open(path, newline=''))): open raises when there is
\* no file; the first record names the columns
ReadCsv(file) ==
  IF ~file.exists THEN [raised |-> TRUE, header |-> << >>, rows |-> << >>]
  ELSE LET records == CsvParse(file.content, 1)
       IN IF records = << >> THEN [raised |-> FALSE, header |-> << >>, rows |-> << >>]
          ELSE [raised |-> FALSE, header |-> Head(records), rows |-> Tail(records)]

NotRead == [raised |-> FALSE, header |-> << >>, rows |-> << >>]

ReportInit ==
  /\ w_segments \in ReportSegmentLists
  /\ w_report = NoReport
  /\ w_file = NoFile
  /\ w_rows = NotRead
  /\ w_pc = "start"

\* report = formatter.create_summary_report(segments=..., keywords=[...])
ClientCreateSummaryReport ==
  /\ w_pc # "off"
  /\ ~w_report.present
  /\ w_report' = create_summary_report(
                   [segments |-> w_segments, keywords |-> << >>,
                    speaker_stats |-> << >>, metadata |-> << >>]).report
  /\ UNCHANGED <<w_segments, w_file, w_rows, w_pc>>
  /\ UNCHANGED <<mvars, avars, rvars, evars, ivars, tvars, kvars, cvars, yvars, svars, gvars>>

\* csv_path = formatter.save_csv(segments, "test.csv")
ClientSaveCsv ==
  /\ w_pc = "start"
  /\ w_file' = WriteCsv(w_segments, w_file)
  /\ w_pc' = "saved"
  /\ UNCHANGED <<w_segments, w_report, w_rows>>
  /\ UNCHANGED <<mvars, avars, rvars, evars, ivars, tvars, kvars, cvars, yvars, svars, gvars>>

\* the client parses the file at the returned path
ClientReadCsv ==
  /\ w_pc = "saved"
  /\ w_rows' = ReadCsv(w_file)
  /\ w_pc' = "parsed"
  /\ UNCHANGED <<w_segments, w_report, w_file>>
  /\ UNCHANGED <<mvars, avars, rvars, evars, ivars, tvars, kvars, cvars, yvars, svars, gvars>>

ReportNext == ClientCreateSummaryReport \/ ClientSaveCsv \/ ClientReadCsv

ReportIdle ==
  /\ w_segments = << >>
  /\ w_report = NoReport
  /\ w_file = NoFile
  /\ w_rows = NotRead
  /\ w_pc = "off"

\* the positions at which a whitespace-separated token of the text starts
TokenStarts(text) ==
  {j \in 1..Len(text) : ~IsSpace(text[j]) /\ (j = 1 \/ IsSpace(text[j - 1]))}

LabelRank(label) == IF label = "SPEAKER_00" THEN 0 ELSE 1

\* C23: the statistics of the report follow from the utterances alone:
\* total_segments is their number, total_words the number of
\* whitespace-separated tokens of their texts, total_duration the largest end
\* time (0 without utterances), speakers the distinct non-empty speaker
\* labels in sorted order.
C23_StatisticsFromUtterances ==
  w_report.present =>
    LET statistics == w_report.statistics
        labels == {w_segments[i].speaker : i \in 1..Len(w_segments)} \ {None, ""}
    IN /\ statistics.total_segments = Len(w_segments)
       /\ statistics.total_words =
            Cardinality(UNION {{<<i, j>> : j \in TokenStarts(w_segments[i].text)} :
                                 i \in 1..Len(w_segments)})
       /\ (w_segments = << >> => statistics.total_duration = 0)
       /\ (w_segments # << >> =>
             /\ \E i \in 1..Len(w_segments) : statistics.total_duration = w_segments[i].end
             /\ \A i \in 1..Len(w_segments) : statistics.total_duration >= w_segments[i].end)
       /\ {statistics.speakers[n] : n \in 1..Len(statistics.speakers)} = labels
       /\ Len(statistics.speakers) = Cardinality(labels)
       /\ \A n \in 1..(Len(statistics.speakers) - 1) :
            LabelRank(statistics.speakers[n]) < LabelRank(statistics.speakers[n + 1])

\* two utterances, the longer-lasting and later-sorting speaker first
C23_Witness ==
  /\ w_report.present
  /\ Len(w_segments) = 2
  /\ w_segments[1].end = 2 /\ w_segments[2].end = 1
  /\ w_segments[1].speaker = "SPEAKER_01" /\ w_segments[2].speaker = "SPEAKER_00"
  /\ w_segments[1].text = CsvTextComma /\ w_segments[2].text = CsvTextQuoteNewline
  /\ w_report.statistics =
       [total_segments |-> 2, total_duration |-> 2, total_words |-> 4,
        speakers |-> <<"SPEAKER_00", "SPEAKER_01">>]

\* str(value)
StringForm(value, column) ==
  IF column = "speaker" /\ value = None THEN <<"N", "o", "n", "e">>
  ELSE CellText(value, column)

ColumnOf(header, column) ==
  CHOOSE j \in 1..Len(header) : header[j] = FieldnameString(column)

\* C24: writing a list of utterances with save_csv and parsing the file gives
\* one row per utterance, in order, whose start, end, speaker and text are
\* the string forms of the utterance's values.
C24_CsvRoundTrip ==
  w_pc = "parsed" =>
    /\ ~w_rows.raised
    /\ Len(w_rows.rows) = Len(w_segments)
    /\ \A i \in 1..Len(w_rows.rows) : \A c \in 1..Len(Fieldnames) :
         /\ \E j \in 1..Len(w_rows.header) : w_rows.header[j] = FieldnameString(Fieldnames[c])
         /\ w_rows.rows[i][ColumnOf(w_rows.header, Fieldnames[c])]
              = StringForm(w_segments[i][Fieldnames[c]], Fieldnames[c])

(***************************************************************************)
(* Part 13: a session of the interactive console (InteractiveConsole,      *)
(* src/src/console.py): single files, quick process, batches and the       *)
(* settings, one after the other, over one cached pipeline and one output  *)
(* directory. The pipeline call is a collaborator's call here: it returns  *)
(* or raises, and a call that returned has written its export files.       *)
(***************************************************************************)

MaxAttempts == 3

\* the files the user can point the console at: two of them differ in the
\* extension only
InputFileList ==
  <<[stem |-> "talk", suffix |-> ".mp4"],
    [stem |-> "drive", suffix |-> ".mp4"],
    [stem |-> "talk", suffix |-> ".wav"]>>

InputFiles == {InputFileList[i] : i \in 1..Len(InputFileList)}

\* what the user can answer to "Language (en/ru/zh)"
AskedLanguages == {"en", "ru"}

\* the names a run gives its export files for save_formats ["json", "txt"]:
\* f"{base_filename}_report.json", f"{base_filename}_transcript.txt", with
\* base_filename the stem of the input path
ExportFilenames(base_filename) ==
  {<<base_filename, "_report.json">>, <<base_filename, "_transcript.txt">>}

\* the output directory after the run for `file` wrote its export files:
\* open(path, "w") replaces a file of the same name
WriteExports(output, file) ==
  {e \in output : e.name \notin ExportFilenames(file.stem)}
    \cup {[name |-> n, owner |-> file] : n \in ExportFilenames(file.stem)}

\* _ensure_pipeline(language): the instance at hand is kept whatever its
\* language; else one is constructed, unless the token is missing or the
\* constructor raises
ensure_pipeline(pipeline, language, has_token, constructed) ==
  IF pipeline # None
  THEN [ready |-> TRUE, pipeline |-> pipeline]
  ELSE IF ~has_token
  THEN [ready |-> FALSE, pipeline |-> None]
  ELSE IF constructed
  THEN [ready |-> TRUE, pipeline |-> language]
  ELSE [ready |-> FALSE, pipeline |-> None]

\* InteractiveConsole.__init__: no history, the pipeline handed in (None in
\* main.py), the configuration
ConsoleInit ==
  /\ s_language \in AskedLanguages
  /\ s_pipeline = None
  /\ s_history = << >>
  /\ s_attempts = << >>
  /\ s_pc = "menu"
  /\ s_batch = << >>
  /\ s_batch_language = None
  /\ s_output = {}

\* the processing attempt as it happened (not a variable of the program): the
\* file, the language chosen for the run, the language the pipeline used was
\* constructed with, how the pipeline call ended
Attempt(op, file, language, pipeline, outcome) ==
  [op |-> op, file |-> file, language |-> language, pipeline |-> pipeline,
   outcome |-> outcome]

SessionEntry(file_type, file, language, status, batch) ==
  [type |-> file_type, file |-> file, language |-> language, status |-> status,
   batch |-> batch]

FileType(file) == IF file.suffix = ".mp4" THEN "video" ELSE "audio"

\* _process_single_file(file_type): no file selected or not confirmed returns
\* early; else _ensure_pipeline, the pipeline call in try/except, one history
\* entry on either branch
ProcessSingleFile ==
  /\ s_pc = "menu"
  /\ Len(s_attempts) < MaxAttempts
  /\ \E file_type \in {"video", "audio"}, file \in InputFiles, language \in AskedLanguages,
        selected \in BOOLEAN, has_token \in BOOLEAN, constructed \in BOOLEAN,
        returned \in BOOLEAN :
       LET ensured == ensure_pipeline(s_pipeline, language, has_token, constructed)
       IN IF ~selected
          THEN UNCHANGED <<s_pipeline, s_history, s_attempts, s_output>>
          ELSE /\ s_pipeline' = ensured.pipeline
               /\ IF ~ensured.ready
                  THEN UNCHANGED <<s_history, s_attempts, s_output>>
                  ELSE /\ s_attempts' = Append(s_attempts,
                              Attempt("single", file, language, ensured.pipeline,
                                      IF returned THEN "returned" ELSE "raised"))
                       /\ s_history' = Append(s_history,
                              SessionEntry(file_type, file, language,
                                           IF returned THEN "completed" ELSE "failed", FALSE))
                       /\ s_output' = IF returned THEN WriteExports(s_output, file)
                                      ELSE s_output
  /\ UNCHANGED <<s_language, s_pc, s_batch, s_batch_language>>
  /\ UNCHANGED <<mvars, avars, rvars, evars, ivars, tvars, kvars, cvars, yvars, wvars, gvars>>

\* quick_process: the language of the configuration, the type by extension;
\* the except branch prints the failure and appends nothing
QuickProcess ==
  /\ s_pc = "menu"
  /\ Len(s_attempts) < MaxAttempts
  /\ \E file \in InputFiles, exists \in BOOLEAN, has_token \in BOOLEAN,
        constructed \in BOOLEAN, returned \in BOOLEAN :
       LET language == s_language
           ensured == ensure_pipeline(s_pipeline, language, has_token, constructed)
       IN IF ~exists
          THEN UNCHANGED <<s_pipeline, s_history, s_attempts, s_output>>
          ELSE /\ s_pipeline' = ensured.pipeline
               /\ IF ~ensured.ready
                  THEN UNCHANGED <<s_history, s_attempts, s_output>>
                  ELSE /\ s_attempts' = Append(s_attempts,
                              Attempt("quick", file, language, ensured.pipeline,
                                      IF returned THEN "returned" ELSE "raised"))
                       /\ IF returned
                          THEN /\ s_history' = Append(s_history,
                                     SessionEntry(FileType(file), file, language,
                                                  "completed", FALSE))
                               /\ s_output' = WriteExports(s_output, file)
                          ELSE UNCHANGED <<s_history, s_output>>
  /\ UNCHANGED <<s_language, s_pc, s_batch, s_batch_language>>
  /\ UNCHANGED <<mvars, avars, rvars, evars, ivars, tvars, kvars, cvars, yvars, wvars, gvars>>

\* all_files of a batch: the files of the directory the globs found
BatchFilesOf(found) == SelectSeq(InputFileList, LAMBDA f : f \in found)

\* batch_process up to its loop: the files found, the common settings,
\* _ensure_pipeline
BatchProcess ==
  /\ s_pc = "menu"
  /\ Len(s_attempts) < MaxAttempts
  /\ \E found \in SUBSET InputFiles, language \in AskedLanguages, has_token \in BOOLEAN,
        constructed \in BOOLEAN :
       LET ensured == ensure_pipeline(s_pipeline, language, has_token, constructed)
       IN /\ Cardinality(found) <= MaxAttempts - Len(s_attempts)
          /\ IF found = {}
             THEN UNCHANGED <<s_pipeline, s_pc, s_batch, s_batch_language>>
             ELSE /\ s_pipeline' = ensured.pipeline
                  /\ IF ensured.ready
                     THEN /\ s_pc' = "batch"
                          /\ s_batch' = BatchFilesOf(found)
                          /\ s_batch_language' = language
                     ELSE UNCHANGED <<s_pc, s_batch, s_batch_language>>
  /\ UNCHANGED <<s_language, s_history, s_attempts, s_output>>
  /\ UNCHANGED <<mvars, avars, rvars, evars, ivars, tvars, kvars, cvars, yvars, wvars, gvars>>

\* one iteration of the loop of batch_process: the pipeline call in
\* try/except, one history entry on either branch
BatchFile ==
  /\ s_pc = "batch"
  /\ s_batch # << >>
  /\ \E returned \in BOOLEAN :
       LET file == Head(s_batch)
       IN /\ s_attempts' = Append(s_attempts,
                 Attempt("batch", file, s_batch_language, s_pipeline,
                         IF returned THEN "returned" ELSE "raised"))
          /\ s_history' = Append(s_history,
                 SessionEntry(FileType(file), file, s_batch_language,
                              IF returned THEN "completed" ELSE "failed", TRUE))
          /\ s_output' = IF returned THEN WriteExports(s_output, file) ELSE s_output
  /\ s_batch' = Tail(s_batch)
  /\ UNCHANGED <<s_language, s_pipeline, s_pc, s_batch_language>>
  /\ UNCHANGED <<mvars, avars, rvars, evars, ivars, tvars, kvars, cvars, yvars, wvars, gvars>>

\* the loop of batch_process is over: the summary, back to the menu
BatchDone ==
  /\ s_pc = "batch"
  /\ s_batch = << >>
  /\ s_pc' = "menu"
  /\ s_batch_language' = None
  /\ UNCHANGED <<s_language, s_pipeline, s_history, s_attempts, s_batch, s_output>>
  /\ UNCHANGED <<mvars, avars, rvars, evars, ivars, tvars, kvars, cvars, yvars, wvars, gvars>>

\* configure_settings: declined, or the new language is stored and the
\* pipeline is dropped (`self.pipeline = None`)
ConfigureSettings ==
  /\ s_pc = "menu"
  /\ \E modify \in BOOLEAN, new_language \in AskedLanguages :
       IF modify
       THEN s_language' = new_language /\ s_pipeline' = None
       ELSE UNCHANGED <<s_language, s_pipeline>>
  /\ UNCHANGED <<s_history, s_attempts, s_pc, s_batch, s_batch_language, s_output>>
  /\ UNCHANGED <<mvars, avars, rvars, evars, ivars, tvars, kvars, cvars, yvars, wvars, gvars>>

ConsoleNext ==
  \/ ProcessSingleFile
  \/ QuickProcess
  \/ BatchProcess
  \/ BatchFile
  \/ BatchDone
  \/ ConfigureSettings

ConsoleIdle ==
  /\ s_language = "en"
  /\ s_pipeline = None
  /\ s_history = << >>
  /\ s_attempts = << >>
  /\ s_pc = "off"
  /\ s_batch = << >>
  /\ s_batch_language = None
  /\ s_output = {}

\* C27: every processing attempt started from the console appends exactly one
\* entry to the session history, 'completed' when the pipeline call returned
\* and 'failed' when it raised: the history has one entry per attempt, in
\* order, with the status of the attempt's outcome.
C27_OneHistoryEntryPerAttempt ==
  /\ Len(s_history) = Len(s_attempts)
  /\ \A i \in 1..Len(s_history) :
       /\ s_history[i].file = s_attempts[i].file
       /\ s_history[i].status =
            IF s_attempts[i].outcome = "returned" THEN "completed" ELSE "failed"

\* C28: the pipeline instance used for an attempt was constructed with the
\* language chosen for that run.
C28_PipelineOfChosenLanguage ==
  \A i \in 1..Len(s_attempts) : s_attempts[i].pipeline = s_attempts[i].language

MaxWorkers == 2

Workers == 1..MaxWorkers

\* LLCARGui.__init__ and the widgets: is_processing False, the process button
\* enabled, the stop button disabled, no thread, nothing queued
GuiInit ==
  /\ g_is_processing = FALSE
  /\ g_process_btn = "normal"
  /\ g_stop_btn = "disabled"
  /\ g_workers = [w \in Workers |-> "unstarted"]
  /\ g_after = << >>

\* a worker thread is executing process_file
Executing(w) == g_workers[w] \notin {"unstarted", "ended"}

\* start_processing, the command of the process button (a disabled button
\* does not call its command): the warning when is_processing, the return when
\* the inputs are not valid, else the flag, the buttons and a new thread
StartProcessing ==
  /\ g_process_btn = "normal"
  /\ \E w \in Workers :
       /\ g_workers[w] = "unstarted"
       /\ \A v \in 1..(w - 1) : g_workers[v] # "unstarted"
       /\ \E valid \in BOOLEAN :
            IF g_is_processing \/ ~valid
            THEN UNCHANGED <<g_is_processing, g_process_btn, g_stop_btn, g_workers>>
            ELSE /\ g_is_processing' = TRUE
                 /\ g_process_btn' = "disabled"
                 /\ g_stop_btn' = "normal"
                 /\ g_workers' = [g_workers EXCEPT ![w] = "pipeline"]
  /\ UNCHANGED g_after
  /\ UNCHANGED <<mvars, avars, rvars, evars, ivars, tvars, kvars, cvars, yvars, wvars, svars>>

\* stop_processing, the command of the stop button: the flag is cleared, no
\* thread is told or awaited
StopProcessing ==
  /\ g_stop_btn = "normal"
  /\ g_is_processing' = FALSE
  /\ UNCHANGED <<g_process_btn, g_stop_btn, g_workers, g_after>>
  /\ UNCHANGED <<mvars, avars, rvars, evars, ivars, tvars, kvars, cvars, yvars, wvars, svars>>

\* process_file, the try block up to the end of the pipeline call: the call
\* returns, or something raises and the except branch queues the error box
WorkerPipelineCall ==
  /\ \E w \in Workers :
       /\ g_workers[w] = "pipeline"
       /\ \/ /\ g_workers' = [g_workers EXCEPT ![w] = "check"]
             /\ UNCHANGED g_after
          \/ /\ g_workers' = [g_workers EXCEPT ![w] = "finally"]
             /\ g_after' = Append(g_after, "showerror")
  /\ UNCHANGED <<g_is_processing, g_process_btn, g_stop_btn>>
  /\ UNCHANGED <<mvars, avars, rvars, evars, ivars, tvars, kvars, cvars, yvars, wvars, svars>>

\* process_file after the call: `if not self.is_processing: return`, else the
\* results are logged and the success box is queued
WorkerCheckStopped ==
  /\ \E w \in Workers :
       /\ g_workers[w] = "check"
       /\ g_workers' = [g_workers EXCEPT ![w] = "finally"]
       /\ g_after' = IF g_is_processing THEN Append(g_after, "showinfo") ELSE g_after
  /\ UNCHANGED <<g_is_processing, g_process_btn, g_stop_btn>>
  /\ UNCHANGED <<mvars, avars, rvars, evars, ivars, tvars, kvars, cvars, yvars, wvars, svars>>

\* the finally clause, first statement: `self.is_processing = False`
WorkerFinally ==
  /\ \E w \in Workers :
       /\ g_workers[w] = "finally"
       /\ g_workers' = [g_workers EXCEPT ![w] = "after_process_btn"]
  /\ g_is_processing' = FALSE
  /\ UNCHANGED <<g_process_btn, g_stop_btn, g_after>>
  /\ UNCHANGED <<mvars, avars, rvars, evars, ivars, tvars, kvars, cvars, yvars, wvars, svars>>

\* the statement of the finally clause a thread is at, and the one after it
AfterStatement(pc) ==
  CASE pc = "after_process_btn" -> [callback |-> "process_btn_normal", next |-> "after_stop_btn"]
    [] pc = "after_stop_btn" -> [callback |-> "stop_btn_disabled", next |-> "after_status"]
    [] pc = "after_status" -> [callback |-> "status_ready", next |-> "ended"]

\* the finally clause, its three root.after(0, ...) statements one at a time;
\* the thread ends after the last
WorkerAfter ==
  /\ \E w \in Workers :
       /\ g_workers[w] \in {"after_process_btn", "after_stop_btn", "after_status"}
       /\ g_after' = Append(g_after, AfterStatement(g_workers[w]).callback)
       /\ g_workers' = [g_workers EXCEPT ![w] = AfterStatement(g_workers[w]).next]
  /\ UNCHANGED <<g_is_processing, g_process_btn, g_stop_btn>>
  /\ UNCHANGED <<mvars, avars, rvars, evars, ivars, tvars, kvars, cvars, yvars, wvars, svars>>

\* the main loop runs the callback at the head of the queue
MainLoopCallback ==
  /\ g_after # << >>
  /\ g_after' = Tail(g_after)
  /\ g_process_btn' = IF Head(g_after) = "process_btn_normal" THEN "normal" ELSE g_process_btn
  /\ g_stop_btn' = IF Head(g_after) = "stop_btn_disabled" THEN "disabled" ELSE g_stop_btn
  /\ UNCHANGED <<g_is_processing, g_workers>>
  /\ UNCHANGED <<mvars, avars, rvars, evars, ivars, tvars, kvars, cvars, yvars, wvars, svars>>

GuiNext ==
  \/ StartProcessing
  \/ StopProcessing
  \/ WorkerPipelineCall
  \/ WorkerCheckStopped
  \/ WorkerFinally
  \/ WorkerAfter
  \/ MainLoopCallback

GuiIdle ==
  /\ g_is_processing = FALSE
  /\ g_process_btn = "off"
  /\ g_stop_btn = "off"
  /\ g_workers = [w \in Workers |-> "unstarted"]
  /\ g_after = << >>

\* never two worker threads executing process_file at a time
SingleWorker == Cardinality({w \in Workers : Executing(w)}) <= 1

\* C30: in every interleaving, is_processing is true whenever a worker thread
\* is executing process_file, and no two worker threads execute process_file
\* at the same time.
C30_FlagCoversRunningWorker ==
  /\ \A w \in Workers : Executing(w) => g_is_processing
  /\ SingleWorker

(***************************************************************************)
(* Specifications: one per part of the program, the other parts at rest.   *)
(***************************************************************************)
SpecMatchInit == MatchInit /\ AlignIdle /\ RunIdle /\ FormatterIdle /\ ConstructIdle /\ CleanIdle /\ KeywordsIdle /\ BatchIdle /\ TypologyIdle /\ ReportIdle /\ ConsoleIdle /\ GuiIdle
SpecMatch == SpecMatchInit /\ [][MatchNext]_vars

SpecAlignInit == AlignInit /\ MatchIdle /\ RunIdle /\ FormatterIdle /\ ConstructIdle /\ CleanIdle /\ KeywordsIdle /\ BatchIdle /\ TypologyIdle /\ ReportIdle /\ ConsoleIdle /\ GuiIdle
SpecAlign == SpecAlignInit /\ [][AlignNext]_vars

SpecExportInit == FormatterInit /\ MatchIdle /\ AlignIdle /\ RunIdle /\ ConstructIdle /\ CleanIdle /\ KeywordsIdle /\ BatchIdle /\ TypologyIdle /\ ReportIdle /\ ConsoleIdle /\ GuiIdle
SpecExport == SpecExportInit /\ [][FormatterNext]_vars

SpecConstructInit == ConstructInit /\ MatchIdle /\ AlignIdle /\ RunIdle /\ FormatterIdle /\ CleanIdle /\ KeywordsIdle /\ BatchIdle /\ TypologyIdle /\ ReportIdle /\ ConsoleIdle /\ GuiIdle
SpecConstruct == SpecConstructInit /\ [][ConstructNext]_vars

SpecBatchInit == BatchInit /\ MatchIdle /\ AlignIdle /\ RunIdle /\ FormatterIdle /\ ConstructIdle /\ CleanIdle /\ KeywordsIdle /\ TypologyIdle /\ ReportIdle /\ ConsoleIdle /\ GuiIdle
SpecBatch == SpecBatchInit /\ [][BatchNext]_vars

SpecCleanInit == CleanInit /\ MatchIdle /\ AlignIdle /\ RunIdle /\ FormatterIdle /\ ConstructIdle /\ KeywordsIdle /\ BatchIdle /\ TypologyIdle /\ ReportIdle /\ ConsoleIdle /\ GuiIdle
SpecClean == SpecCleanInit /\ [][CleanNext]_vars

SpecKeywordsInit == KeywordsInit /\ MatchIdle /\ AlignIdle /\ RunIdle /\ FormatterIdle /\ ConstructIdle /\ CleanIdle /\ BatchIdle /\ TypologyIdle /\ ReportIdle /\ ConsoleIdle /\ GuiIdle
SpecKeywords == SpecKeywordsInit /\ [][KeywordsNext]_vars

SpecTypologyInit == TypologyInit /\ MatchIdle /\ AlignIdle /\ RunIdle /\ FormatterIdle /\ ConstructIdle /\ CleanIdle /\ KeywordsIdle /\ BatchIdle /\ ReportIdle /\ ConsoleIdle /\ GuiIdle
SpecTypology == SpecTypologyInit /\ [][TypologyNext]_vars

SpecReportInit == ReportInit /\ MatchIdle /\ AlignIdle /\ RunIdle /\ FormatterIdle /\ ConstructIdle /\ CleanIdle /\ KeywordsIdle /\ BatchIdle /\ TypologyIdle /\ ConsoleIdle /\ GuiIdle
SpecReport == SpecReportInit /\ [][ReportNext]_vars

SpecConsoleInit == ConsoleInit /\ RunIdle /\ MatchIdle /\ AlignIdle /\ FormatterIdle /\ ConstructIdle /\ CleanIdle /\ KeywordsIdle /\ BatchIdle /\ TypologyIdle /\ ReportIdle /\ GuiIdle
SpecConsole == SpecConsoleInit /\ [][ConsoleNext]_vars

SpecGuiInit == GuiInit /\ RunIdle /\ MatchIdle /\ AlignIdle /\ FormatterIdle /\ ConstructIdle /\ CleanIdle /\ KeywordsIdle /\ BatchIdle /\ TypologyIdle /\ ReportIdle /\ ConsoleIdle
SpecGui == SpecGuiInit /\ [][GuiNext]_vars

Init == RunInit /\ MatchIdle /\ AlignIdle /\ FormatterIdle /\ ConstructIdle /\ CleanIdle /\ KeywordsIdle /\ BatchIdle /\ TypologyIdle /\ ReportIdle /\ ConsoleIdle /\ GuiIdle
Spec == Init /\ [][Next]_vars

====
